---- MODULE Spec2Model ----
(***************************************************************************)
(* A model of the GRIB2 run-length record iterator                         *)
(* (grib2_2/src/readers/records.rs) and of the section decoders that feed  *)
(* it.                                                                     *)
(*                                                                         *)
(* Machine integers.  u16 arithmetic is computed modulo 2^16.  TLC's       *)
(* integers are 32-bit signed, so a u32 value v is written as v when       *)
(* v < 2^31 and as v - 2^32 otherwise (its two's-complement residue): a    *)
(* negative number in a u32 field is a wrapped value, and u32_lt is the    *)
(* unsigned order.  An arithmetic overflow aborts the program when the     *)
(* crate is built with overflow checks (the dev profile) and wraps when it *)
(* is built without them (the release profile): overflow_checks says which *)
(* build is running.                                                       *)
(***************************************************************************)
EXTENDS Integers, Sequences, FiniteSets, TLC

VARIABLES
    overflow_checks,  \* TRUE: arithmetic overflow panics; FALSE: it wraps
    phase,            \* "builder", "iterating", "build_err", "aborted"
    builder,          \* Grib2RecordIterBuilder: every field an Option
    reader,           \* the BufReader the iterator borrows: [data, pos]
    iter,             \* Grib2RecordIter's fields
    item,             \* what the last call returned to the consumer
    emitted,          \* the records returned so far, in order
    calls,            \* the number of next() calls made so far
    call,             \* the arguments of a function called on its own
    ret,              \* its result: [done, r]
    file,             \* the bytes of the file a product reader opened
    pos,              \* how many of them its BufReader has consumed
    stage,            \* the section the product reader decodes next
    section3,         \* Option<Section3_0>
    section4,         \* Option<Section4_0>
    section5,         \* Option<Section5_200u16>
    failure,          \* the Grib2Error the product reader returned, if any
    kind,             \* the reader being opened: "Grib2Reader" or "PrrReader"
    section0,         \* Option<Section0>
    section1,         \* Option<Section1>
    section2,         \* Option<Section2>
    section6,         \* Option<Section6>
    section7,         \* Option<Section7>
    section8,         \* Option<Section8>
    iterators,        \* for each record_iter call made: where it found the reader
    loaded,           \* what a materializing reader returned, if it has
    product,          \* a reader of several forecast blocks: its fields
    prep_iter         \* the FPrrPrepIterator made from it

vars == <<overflow_checks, phase, builder, reader, iter, item, emitted, calls,
          call, ret, file, pos, stage, section3, section4, section5, failure,
          kind, section0, section1, section2, section6, section7, section8,
          iterators, loaded, product, prep_iter>>
iter_vars == <<overflow_checks, phase, builder, reader, iter, item, emitted, calls>>
fn_vars == <<call, ret>>
product_vars == <<product, prep_iter>>
open_vars == <<kind, section0, section1, section2, section6, section7, section8,
               iterators, loaded>>
sect_vars == <<file, pos, stage, section3, section4, section5, failure, open_vars>>

----------------------------------------------------------------------------
(* Bounds of the model *)

\* the longest run-length payload enumerated exhaustively
MaxLen == 4
\* the number of next() calls a consumer makes
MaxCalls == 14
\* the most continuation digits of a set handed to expand_run_length on its own
MaxDigits == 3
\* how many record iterators are made from one opened reader
MaxIterators == 2

----------------------------------------------------------------------------
(* Option<T>: None is the empty sequence, Some(v) a sequence of one element *)

None == <<>>
Some(v) == <<v>>
is_some(o) == o # <<>>
unwrap(o) == o[1]

(* u16 and u32 *)

U16 == 2^16

\* a < b for two u32 values in residue form
u32_lt(a, b) == IF (a < 0) = (b < 0) THEN a < b ELSE b < 0

\* base^exp as Rust's pow computes it when nothing overflows
RECURSIVE pow(_, _)
pow(base, exp) == IF exp = 0 THEN 1 ELSE base * pow(base, exp - 1)

----------------------------------------------------------------------------
(* Items returned by next(): Option<Grib2Result<Grib2Record>>, or a panic *)

NoItem == [kind |-> "none", err |-> "", lat |-> 0, lon |-> 0, level |-> 0,
           value |-> None, reads |-> 0, points |-> 0]
EndItem == [NoItem EXCEPT !.kind = "end"]
PanicItem == [NoItem EXCEPT !.kind = "panic"]
ErrItem(e, reads, points) ==
    [NoItem EXCEPT !.kind = "error", !.err = e, !.reads = reads, !.points = points]
RecordItem(lat, lon, level, value) ==
    [NoItem EXCEPT !.kind = "record", !.lat = lat, !.lon = lon, !.level = level,
                   !.value = value]

Grib2Record(i) == [lat |-> i.lat, lon |-> i.lon, level |-> i.level, value |-> i.value]

----------------------------------------------------------------------------
(* expand_run_length *)

\* sum_run_lengths with digit i weighted lngu^i
RECURSIVE sum_run_lengths_shifted(_, _, _, _)
sum_run_lengths_shifted(values, maxv, lngu, i) ==
    IF i > Len(values) - 1 THEN 0
    ELSE pow(lngu, i) * (values[i + 1] - (maxv + 1))
         + sum_run_lengths_shifted(values, maxv, lngu, i + 1)

\* the sum over the continuation digits values[2..], digit i weighted lngu^(i-1)
RECURSIVE sum_run_lengths(_, _, _, _)
sum_run_lengths(values, maxv, lngu, i) ==
    IF i > Len(values) - 1 THEN 0
    ELSE pow(lngu, i - 1) * (values[i + 1] - (maxv + 1))
         + sum_run_lengths(values, maxv, lngu, i + 1)

\* A natural number of any size, written as its base-256 digits with the
\* least significant first: what a u32 expression is worth before it is cut
\* to 32 bits.

\* a * m + carry
RECURSIVE big_mul(_, _, _)
big_mul(a, m, carry) ==
    LET digit(t, rest) == <<t % 256>> \o big_mul(rest, m, t \div 256)
    IN IF a = <<>> THEN (IF carry = 0 THEN <<>> ELSE digit(carry, <<>>))
       ELSE digit(Head(a) * m + carry, Tail(a))

\* a + b + carry
RECURSIVE big_add(_, _, _)
big_add(a, b, carry) ==
    LET first(x) == IF x = <<>> THEN 0 ELSE Head(x)
        rest(x) == IF x = <<>> THEN <<>> ELSE Tail(x)
        digit(t) == <<t % 256>> \o big_add(rest(a), rest(b), t \div 256)
    IN IF a = <<>> /\ b = <<>> /\ carry = 0 THEN <<>>
       ELSE digit(first(a) + first(b) + carry)

RECURSIVE big_pow(_, _)
big_pow(base, exp) ==
    IF exp = 0 THEN <<1>> ELSE big_mul(big_pow(base, exp - 1), base, 0)

\* the sum of sum_run_lengths, worth what it is worth
RECURSIVE big_sum_run_lengths(_, _, _, _)
big_sum_run_lengths(values, maxv, lngu, i) ==
    IF i > Len(values) - 1 THEN <<>>
    ELSE big_add(big_mul(big_pow(lngu, i - 1), values[i + 1] - (maxv + 1), 0),
                 big_sum_run_lengths(values, maxv, lngu, i + 1), 0)

\* the number is below 2^32: a u32 holds it
fits_u32(a) == \A i \in 5..Len(a) : a[i] = 0

\* the number cut to 32 bits, as the residue of a u32
low_u32(a) ==
    LET d(i) == IF i <= Len(a) THEN a[i] ELSE 0
    IN (IF d(4) >= 128 THEN d(4) - 256 ELSE d(4)) * 2^24 + d(3) * 2^16 + d(2) * 2^8 + d(1)

\* the number is below 2^31
fits_i32(a) == fits_u32(a) /\ low_u32(a) >= 0

\* [panic, level, times]; the assertion and the index values[0] panic.  The
\* powers lngu.pow(i), the sum and times + 1 are u32: one that is 2^32 or
\* more panics with overflow checks and is cut to 32 bits without them (the
\* products and the partial sums are no larger than the sum).  The elements
\* after the first are above maxv in every set the iterator hands over.
expand_run_length(values, maxv, lngu, checks) ==
    LET expanded(times, top) ==
            IF fits_i32(times) /\ fits_i32(top)
            THEN [panic |-> FALSE, level |-> values[1],
                  times |-> sum_run_lengths(values, maxv, lngu, 1) + 1]
            ELSE IF checks /\ ~(fits_u32(times) /\ fits_u32(top))
            THEN [panic |-> TRUE, level |-> 0, times |-> 0]
            ELSE [panic |-> FALSE, level |-> values[1], times |-> low_u32(times)]
    IN IF values = <<>> \/ ~(values[1] <= maxv)
       THEN [panic |-> TRUE, level |-> 0, times |-> 0]
       ELSE IF Len(values) = 1
       THEN [panic |-> FALSE, level |-> values[1], times |-> 1]
       ELSE expanded(big_add(big_sum_run_lengths(values, maxv, lngu, 1), <<1>>, 0),
                     big_pow(lngu, Len(values) - 2))

----------------------------------------------------------------------------
(* Grib2RecordIter.  s is the pair [iter, reader]: the iterator's fields   *)
(* and the stream it borrows.                                              *)

\* read_u8 delivering a zero byte at the end of the data
read_u8_zero_at_end(s) ==
    IF s.reader.pos >= Len(s.reader.data)
    THEN [ok |-> TRUE,
          s |-> [s EXCEPT !.iter.read_bytes = @ + 1],
          value |-> 0]
    ELSE [ok |-> TRUE,
          s |-> [iter |-> [s.iter EXCEPT !.read_bytes = @ + 1],
                 reader |-> [s.reader EXCEPT !.pos = @ + 1]],
          value |-> s.reader.data[s.reader.pos + 1]]

\* read_exact of one byte: fails at the end of the data, else delivers it
read_u8(s) ==
    IF s.reader.pos >= Len(s.reader.data)
    THEN [ok |-> FALSE, s |-> s, value |-> 0]
    ELSE [ok |-> TRUE,
          s |-> [iter |-> [s.iter EXCEPT !.read_bytes = @ + 1],
                 reader |-> [s.reader EXCEPT !.pos = @ + 1]],
          value |-> s.reader.data[s.reader.pos + 1]]

\* retrieve_loop going on while read_bytes <= total_bytes
RECURSIVE retrieve_loop_inclusive(_, _)
retrieve_loop_inclusive(s, run_length) ==
    IF ~(s.iter.read_bytes <= s.iter.total_bytes)
    THEN [ok |-> TRUE, s |-> s, run_length |-> run_length]
    ELSE LET r == read_u8(s) IN
         IF ~r.ok
         THEN [ok |-> FALSE, s |-> r.s, run_length |-> <<>>]
         ELSE IF r.value <= s.iter.maxv /\ run_length # <<>>
         THEN [ok |-> TRUE,
               s |-> [r.s EXCEPT !.iter.last_run_length = Some(r.value)],
               run_length |-> run_length]
         ELSE retrieve_loop_inclusive(r.s, Append(run_length, r.value))

\* the while loop of retrieve_run_length
RECURSIVE retrieve_loop(_, _)
retrieve_loop(s, run_length) ==
    IF ~(s.iter.read_bytes < s.iter.total_bytes)
    THEN [ok |-> TRUE, s |-> s, run_length |-> run_length]
    ELSE LET r == read_u8(s) IN
         IF ~r.ok
         THEN [ok |-> FALSE, s |-> r.s, run_length |-> <<>>]
         ELSE IF r.value <= s.iter.maxv /\ run_length # <<>>
         THEN [ok |-> TRUE,
               s |-> [r.s EXCEPT !.iter.last_run_length = Some(r.value)],
               run_length |-> run_length]
         ELSE retrieve_loop(r.s, Append(run_length, r.value))

\* retrieve_run_length starting every set empty, the look-ahead byte dropped
retrieve_run_length_fresh(s) == retrieve_loop(s, <<>>)

retrieve_run_length(s) ==
    retrieve_loop(s, IF is_some(s.iter.last_run_length)
                     THEN <<unwrap(s.iter.last_run_length)>>
                     ELSE <<>>)

\* the tail of next(): build the record, count it down, move the grid cursor
\* [panic, s, item]
emit_record(s, checks) ==
    LET it == s.iter
        result == RecordItem(it.current_lat, it.current_lon,
                             it.current_level, it.current_value)
        times_underflow == it.returning_times = 0
        lon == it.current_lon + it.lon_inc
        wraps_row == it.lon_max < lon
        lat_underflow == wraps_row /\ u32_lt(it.current_lat, it.lat_inc)
    IN  IF checks /\ (times_underflow \/ lat_underflow)
        THEN [panic |-> TRUE, s |-> s, item |-> PanicItem]
        ELSE [panic |-> FALSE,
              s |-> [s EXCEPT
                       !.iter.returning_times = @ - 1,
                       !.iter.current_lon = IF wraps_row THEN it.lon_min ELSE lon,
                       !.iter.current_lat = IF wraps_row THEN @ - it.lat_inc ELSE @,
                       !.iter.number_of_reads = @ + 1],
              item |-> result]

\* the first branch of next(): nothing left to return and every byte consumed
at_end(it) == it.returning_times = 0 /\ it.total_bytes <= it.read_bytes

\* end_item ending the sequence as soon as enough points were read
end_item_at_least(it) ==
    IF it.number_of_reads >= it.number_of_points
    THEN EndItem
    ELSE ErrItem("Unexpected", it.number_of_reads, it.number_of_points)

\* what next() returns in that branch
end_item(it) ==
    IF it.number_of_reads = it.number_of_points
    THEN EndItem
    ELSE ErrItem("Unexpected", it.number_of_reads, it.number_of_points)

\* value_of taking level 1 for a missing value too
value_of_from_two(level_values, level) ==
    IF 1 < level THEN Some(level_values[level]) ELSE None

\* the physical value of a level: level_values[level - 1] of the zero-based
\* slice is level_values[level] of the one-based sequence
value_of(level_values, level) ==
    IF 0 < level THEN Some(level_values[level]) ELSE None

\* Iterator::next: [s, item]
next_item(s, checks) ==
    LET it == s.iter IN
    IF at_end(it)
    THEN [s |-> s, item |-> end_item(it)]
    ELSE IF it.returning_times = 0
    THEN LET rl == retrieve_run_length(s) IN
         IF ~rl.ok
         THEN [s |-> rl.s, item |-> ErrItem("ReadError", 0, 0)]
         ELSE LET x == expand_run_length(rl.run_length, it.maxv, it.lngu, checks) IN
              IF x.panic
              THEN [s |-> rl.s, item |-> PanicItem]
              ELSE IF 0 < x.level /\ x.level > Len(it.level_values)
              THEN [s |-> rl.s, item |-> PanicItem]
              ELSE LET e == emit_record(
                              [rl.s EXCEPT
                                 !.iter.current_level = x.level,
                                 !.iter.current_value =
                                     value_of(it.level_values, x.level),
                                 !.iter.returning_times = x.times],
                              checks)
                   IN [s |-> e.s, item |-> e.item]
    ELSE LET e == emit_record(s, checks) IN [s |-> e.s, item |-> e.item]

----------------------------------------------------------------------------
(* Grib2RecordIterBuilder *)

BuilderFields == <<"reader", "total_bytes", "number_of_points", "lat_max", "lon_min",
                   "lon_max", "lat_inc", "lon_inc", "nbit", "maxv", "level_values">>

\* the first field, in build()'s order, that was never set; 0 if all are set
RECURSIVE first_unset(_, _)
first_unset(b, i) ==
    IF i > Len(BuilderFields) THEN 0
    ELSE IF ~is_some(b[BuilderFields[i]]) THEN i
    ELSE first_unset(b, i + 1)

\* 2u16.pow(nbit as u32) - 1 - maxv in u16: [overflow, value]
lngu_of(nbit, maxv) ==
    LET p == IF nbit >= 16 THEN 0 ELSE 2^nbit
        d == p - 1 - maxv
    IN [overflow |-> nbit >= 16 \/ d < 0, value |-> d % U16]

NoIter == [number_of_points |-> 0, total_bytes |-> 0, lon_min |-> 0, lon_max |-> 0,
           lat_inc |-> 0, lon_inc |-> 0, maxv |-> 0, lngu |-> 0,
           level_values |-> <<>>, read_bytes |-> 0, current_lat |-> 0,
           current_lon |-> 0, current_level |-> 0, current_value |-> None,
           returning_times |-> 0, number_of_reads |-> 0, last_run_length |-> None]

\* build(): [status, field, iter]
build(b, checks) ==
    LET missing == first_unset(b, 1) IN
    IF missing # 0
    THEN [status |-> "err", field |-> BuilderFields[missing], iter |-> NoIter]
    ELSE LET l == lngu_of(unwrap(b.nbit), unwrap(b.maxv)) IN
         IF checks /\ l.overflow
         THEN [status |-> "panic", field |-> "", iter |-> NoIter]
         ELSE [status |-> "ok", field |-> "",
               iter |-> [number_of_points |-> unwrap(b.number_of_points),
                         total_bytes |-> unwrap(b.total_bytes),
                         lon_min |-> unwrap(b.lon_min),
                         lon_max |-> unwrap(b.lon_max),
                         lat_inc |-> unwrap(b.lat_inc),
                         lon_inc |-> unwrap(b.lon_inc),
                         maxv |-> unwrap(b.maxv),
                         lngu |-> l.value,
                         level_values |-> unwrap(b.level_values),
                         read_bytes |-> 0,
                         current_lat |-> unwrap(b.lat_max),
                         current_lon |-> unwrap(b.lon_min),
                         current_level |-> 0,
                         current_value |-> None,
                         returning_times |-> 0,
                         number_of_reads |-> 0,
                         last_run_length |-> None]]

----------------------------------------------------------------------------
(* Inputs: what a product reader hands to the builder *)

\* byte values of the payload: levels 0, 1, 3 and continuation digits 12, 15
\* when maxv = 10
Bytes == {0, 1, 3, 12, 15}

RECURSIVE SeqsUpTo(_, _)
SeqsUpTo(S, n) ==
    IF n = 0 THEN {<<>>}
    ELSE LET shorter == SeqsUpTo(S, n - 1) IN
         shorter \cup {Append(q, x) : q \in {t \in shorter : Len(t) = n - 1}, x \in S}

Payloads == SeqsUpTo(Bytes, MaxLen)

\* 2 columns by 1 row at latitude 10
ParamsA == [number_of_points |-> 2, lat_max |-> 10, lon_min |-> 100, lon_max |-> 110,
            lat_inc |-> 10, lon_inc |-> 10, nbit |-> 4, maxv |-> 10,
            level_values |-> <<5, 7, 9>>]
\* 2 columns by 2 rows, rows at latitude 10 and 0; lon_max is not on the lattice
ParamsB == [number_of_points |-> 4, lat_max |-> 10, lon_min |-> 100, lon_max |-> 115,
            lat_inc |-> 10, lon_inc |-> 10, nbit |-> 4, maxv |-> 10,
            level_values |-> <<5, 7, 9>>]
\* 3 columns by 2 rows, rows at latitude 20 and 10; max_level_value is above
\* 2^nbit - 1, and the bytes 12 and 15 are levels without a table entry
ParamsC == [number_of_points |-> 6, lat_max |-> 20, lon_min |-> 100, lon_max |-> 120,
            lat_inc |-> 10, lon_inc |-> 10, nbit |-> 4, maxv |-> 20,
            level_values |-> <<5, 7, 9>>]
\* the 4 by 3 grid of the end-to-end example, nbit = 4, maxv = 10
ParamsE == [number_of_points |-> 12, lat_max |-> 30, lon_min |-> 100, lon_max |-> 130,
            lat_inc |-> 10, lon_inc |-> 10, nbit |-> 4, maxv |-> 10,
            level_values |-> <<10, 20, 30, 40, 50, 60, 70, 80, 90, 100>>]

\* the worked example of expand_run_length's documentation, cut to 12 points
ExamplePayload == <<3, 9, 12, 6, 4, 15, 2, 1, 0>>

Inputs == ({ParamsA, ParamsB, ParamsC} \X Payloads) \cup {<<ParamsE, ExamplePayload>>}

\* the bytes that follow the payload in the file: section 8
End7777 == <<55, 55, 55, 55>>

\* the stream from run_length_position on: the whole payload and what follows
\* it, or a file cut one byte short of the payload's end
Sources(payload) ==
    {payload \o End7777}
    \cup (IF payload = <<>> THEN {} ELSE {SubSeq(payload, 1, Len(payload) - 1)})

FullBuilder(p, payload) ==
    [reader |-> Some(TRUE), total_bytes |-> Some(Len(payload)),
     number_of_points |-> Some(p.number_of_points), lat_max |-> Some(p.lat_max),
     lon_min |-> Some(p.lon_min), lon_max |-> Some(p.lon_max),
     lat_inc |-> Some(p.lat_inc), lon_inc |-> Some(p.lon_inc),
     nbit |-> Some(p.nbit), maxv |-> Some(p.maxv),
     level_values |-> Some(p.level_values)]

\* builders of the example with one setter call left out
PartialBuilders ==
    {[FullBuilder(ParamsE, ExamplePayload) EXCEPT ![BuilderFields[i]] = None] :
        i \in 1..Len(BuilderFields)}

----------------------------------------------------------------------------
(* The iterator and its consumer *)

NoCall == [values |-> <<>>, maxv |-> 0, lngu |-> 0]
NoRet == [done |-> FALSE, r |-> [panic |-> FALSE, level |-> 0, times |-> 0]]
FnIdle == call = NoCall /\ ret = NoRet

\* no reader of several forecast blocks has been opened
NoProduct == [kind |-> "none"]
NoPrepIter == [index |-> 0, coordinates |-> <<>>, precipitations |-> <<>>]
ProductIdle == product = NoProduct /\ prep_iter = NoPrepIter

\* no file is being opened with Grib2Reader::new or PrrReader::new, and no
\* materializing reader has returned
OpenIdle ==
    /\ kind = "none"
    /\ section0 = <<>>
    /\ section1 = <<>>
    /\ section2 = <<>>
    /\ section6 = <<>>
    /\ section7 = <<>>
    /\ section8 = <<>>
    /\ iterators = <<>>
    /\ loaded = <<>>

\* no product reader has been opened
SectIdle ==
    /\ file = <<>>
    /\ pos = 0
    /\ stage = "idle"
    /\ section3 = <<>>
    /\ section4 = <<>>
    /\ section5 = <<>>
    /\ failure = <<>>
    /\ OpenIdle

Init ==
    /\ overflow_checks \in BOOLEAN
    /\ phase = "builder"
    /\ \/ \E in \in Inputs :
            /\ builder = FullBuilder(in[1], in[2])
            /\ \E d \in Sources(in[2]) : reader = [data |-> d, pos |-> 0]
       \/ /\ builder \in PartialBuilders
          /\ reader = [data |-> ExamplePayload \o End7777, pos |-> 0]
    /\ iter = NoIter
    /\ item = NoItem
    /\ emitted = <<>>
    /\ calls = 0
    /\ FnIdle
    /\ ProductIdle
    /\ SectIdle

\* Grib2RecordIterBuilder::build
Build ==
    /\ phase = "builder"
    /\ LET r == build(builder, overflow_checks) IN
       /\ phase' = CASE r.status = "ok" -> "iterating"
                     [] r.status = "err" -> "build_err"
                     [] OTHER -> "aborted"
       /\ iter' = r.iter
       /\ item' = CASE r.status = "err" -> ErrItem("RuntimeError", 0, 0)
                    [] r.status = "panic" -> PanicItem
                    [] OTHER -> NoItem
    /\ UNCHANGED <<overflow_checks, builder, reader, emitted, calls, fn_vars, product_vars, sect_vars>>

\* one call of Iterator::next by the consumer
CallNext ==
    /\ phase = "iterating"
    /\ calls < MaxCalls
    /\ LET r == next_item([iter |-> iter, reader |-> reader], overflow_checks) IN
       /\ iter' = r.s.iter
       /\ reader' = r.s.reader
       /\ item' = r.item
       /\ emitted' = IF r.item.kind = "record"
                     THEN Append(emitted, Grib2Record(r.item))
                     ELSE emitted
       /\ phase' = IF r.item.kind = "panic" THEN "aborted" ELSE phase
    /\ calls' = calls + 1
    /\ UNCHANGED <<overflow_checks, builder, fn_vars, product_vars, sect_vars>>

Next == Build \/ CallNext

Spec == Init /\ [][Next]_vars

----------------------------------------------------------------------------
(* expand_run_length called on its own *)

IterIdle ==
    /\ overflow_checks = TRUE
    /\ phase = "idle"
    /\ builder = FullBuilder(ParamsE, ExamplePayload)
    /\ reader = [data |-> <<>>, pos |-> 0]
    /\ iter = NoIter
    /\ item = NoItem
    /\ emitted = <<>>
    /\ calls = 0

\* nbit = 4, maxv = 10, lngu = 5: levels 0..10, digits 11..15; a first element
\* above maxv and the empty slice are the calls the function aborts on.
\* nbit = 4, maxv = 3, lngu = 12: some of the digits 4..15
ExpandCalls ==
    {[values |-> <<l>> \o d, maxv |-> 10, lngu |-> 5] :
        l \in {0, 3, 4, 9, 12}, d \in SeqsUpTo(11..15, MaxDigits)}
    \cup {[values |-> <<l>> \o d, maxv |-> 3, lngu |-> 12] :
        l \in {0, 3}, d \in SeqsUpTo({4, 9, 15}, MaxDigits)}
    \cup {[values |-> <<>>, maxv |-> 10, lngu |-> 5]}

InitExpand ==
    /\ IterIdle
    /\ SectIdle
    /\ ProductIdle
    /\ call \in ExpandCalls
    /\ ret = NoRet

ExpandRunLength ==
    /\ ~ret.done
    /\ ret' = [done |-> TRUE,
               r |-> expand_run_length(call.values, call.maxv, call.lngu,
                                       overflow_checks)]
    /\ UNCHANGED <<call, iter_vars, sect_vars, product_vars>>

NextExpand == ExpandRunLength

SpecExpand == InitExpand /\ [][NextExpand]_vars

----------------------------------------------------------------------------
(* The typed section decoders (src/readers/sections) and the product      *)
(* reader that runs them one after the other (src/readers/psw.rs)         *)

\* a seek that leaves the reader where it is
seek_ignored(rd, position) == rd

\* BufReader::seek(SeekFrom::Start(position)) on a file: the reader stands at
\* position, which may be beyond the end of the file
seek(rd, position) == [rd EXCEPT !.pos = position]

\* <uint>::from_be_bytes of a 1, 2 or 4 byte buffer; a u32 as its residue
from_be_bytes(buf) ==
    CASE Len(buf) = 1 -> buf[1]
      [] Len(buf) = 2 -> buf[1] * 2^8 + buf[2]
      [] OTHER -> (IF buf[1] >= 128 THEN buf[1] - 256 ELSE buf[1]) * 2^24
                  + buf[2] * 2^16 + buf[3] * 2^8 + buf[4]

\* read_u8, read_u16, read_u32 of readers/utils.rs: read_exact of n bytes; a
\* short read is an error and leaves nothing to read
read_uint(f, p, n) ==
    IF p + n <= Len(f)
    THEN [ok |-> TRUE, pos |-> p + n, value |-> from_be_bytes(SubSeq(f, p + 1, p + n))]
    ELSE [ok |-> FALSE, pos |-> Len(f), value |-> 0]

\* the buffer read as a two's-complement integer
read_int_twos_complement(f, p, n) ==
    IF p + n <= Len(f)
    THEN LET buf == SubSeq(f, p + 1, p + n)
             magnitude == from_be_bytes([buf EXCEPT ![1] = buf[1] % 128])
         IN [ok |-> TRUE, pos |-> p + n,
             value |-> IF buf[1] < 128 THEN magnitude ELSE magnitude - 2^(8 * n - 1)]
    ELSE [ok |-> FALSE, pos |-> Len(f), value |-> 0]

\* read_i32: the first bit is the sign, the other 31 bits the magnitude
read_int(f, p, n) ==
    IF p + n <= Len(f)
    THEN LET buf == SubSeq(f, p + 1, p + n)
             sign == IF buf[1] < 128 THEN 1 ELSE -1
             magnitude == from_be_bytes([buf EXCEPT ![1] = buf[1] % 128])
         IN [ok |-> TRUE, pos |-> p + n, value |-> magnitude * sign]
    ELSE [ok |-> FALSE, pos |-> Len(f), value |-> 0]

\* validate_u8 with the comparison left out: the byte is read and returned
validate_u8_unchecked(f, p, expected) ==
    LET r == read_uint(f, p, 1) IN
    [status |-> IF ~r.ok THEN "ReadError" ELSE "ok",
     pos |-> r.pos, value |-> r.value, expected |-> expected]

\* validate_u8: read one byte and compare it with the expected value
validate_u8(f, p, expected) ==
    LET r == read_uint(f, p, 1) IN
    [status |-> IF ~r.ok THEN "ReadError"
                ELSE IF r.value # expected THEN "Unexpected" ELSE "ok",
     pos |-> r.pos, value |-> r.value, expected |-> expected]

\* validate_u32: read four bytes and compare them with the expected value
validate_u32(f, p, expected) ==
    LET r == read_uint(f, p, 4) IN
    [status |-> IF ~r.ok THEN "ReadError"
                ELSE IF r.value # expected THEN "Unexpected" ELSE "ok",
     pos |-> r.pos, value |-> r.value, expected |-> expected]

\* read_bytes: read_exact of length bytes, returned as they are
read_bytes(f, p, length) ==
    IF p + length <= Len(f)
    THEN [ok |-> TRUE, pos |-> p + length, value |-> SubSeq(f, p + 1, p + length)]
    ELSE [ok |-> FALSE, pos |-> Len(f), value |-> <<>>]

\* read_u64: the u64 is kept as its two u32 halves <<high, low>>
read_u64(f, p) ==
    IF p + 8 <= Len(f)
    THEN [ok |-> TRUE, pos |-> p + 8,
          value |-> <<from_be_bytes(SubSeq(f, p + 1, p + 4)),
                      from_be_bytes(SubSeq(f, p + 5, p + 8))>>]
    ELSE [ok |-> FALSE, pos |-> Len(f), value |-> <<0, 0>>]

\* the calendar of Date::from_calendar_date
is_leap_year(year) == year % 4 = 0 /\ (year % 100 # 0 \/ year % 400 = 0)
days_in_month(year, month) ==
    CASE month = 2 -> IF is_leap_year(year) THEN 29 ELSE 28
      [] month \in {4, 6, 9, 11} -> 30
      [] OTHER -> 31

\* read_date_time: a u16 year and five u8 parts are read, then the month, the
\* date and the time are checked in this order (a year above 9999 is no date)
read_date_time(f, p) ==
    LET checked(year, parts) ==
            IF parts[1] \notin 1..12 THEN "Unexpected"
            ELSE IF year > 9999 \/ parts[2] \notin 1..days_in_month(year, parts[1])
                 THEN "Unexpected"
            ELSE IF parts[3] > 23 \/ parts[4] > 59 \/ parts[5] > 59 THEN "Unexpected"
            ELSE "ok"
        result(year, parts, status) ==
            [ok |-> status = "ok", status |-> status, pos |-> parts.pos,
             value |-> IF status = "ok" THEN <<year.value>> \o parts.value ELSE <<>>]
        time(year, parts) ==
            IF ~parts.ok THEN result(year, parts, "ReadError")
            ELSE result(year, parts, checked(year.value, parts.value))
        date(year) ==
            IF ~year.ok THEN [ok |-> FALSE, status |-> "ReadError", pos |-> year.pos,
                              value |-> <<>>]
            ELSE time(year, read_bytes(f, year.pos, 5))
    IN date(read_uint(f, p, 2))

\* one field of a section, by its type
read_field(f, p, type) ==
    CASE type = "u8" -> read_uint(f, p, 1)
      [] type = "u16" -> read_uint(f, p, 2)
      [] type = "u32" -> read_uint(f, p, 4)
      [] type = "u64" -> read_u64(f, p)
      [] type = "bytes2" -> read_bytes(f, p, 2)
      [] type = "datetime" -> read_date_time(f, p)
      [] OTHER -> read_int(f, p, 4)

\* the error a failed field read returns: a short read is a ReadError
status_of(r) ==
    IF r.ok THEN "ok" ELSE IF "status" \in DOMAIN r THEN r.status ELSE "ReadError"

\* the fields of layout from the i-th on, each read with `?`
RECURSIVE read_fields(_, _, _, _)
read_fields(f, p, layout, i) ==
    LET push(r, rest) ==
            [ok |-> rest.ok, pos |-> rest.pos, fields |-> <<r.value>> \o rest.fields,
             status |-> rest.status]
        field(r) ==
            IF ~r.ok THEN [ok |-> FALSE, pos |-> r.pos, fields |-> <<>>,
                           status |-> status_of(r)]
            ELSE push(r, read_fields(f, r.pos, layout, i + 1))
    IN IF i > Len(layout) THEN [ok |-> TRUE, pos |-> p, fields |-> <<>>, status |-> "ok"]
       ELSE field(read_field(f, p, layout[i]))

\* for _ in 0..number_of_levels { level_values.push(read(..)?) }
RECURSIVE read_level_values(_, _, _, _)
read_level_values(f, p, number_of_levels, type) ==
    LET push(r, rest) ==
            [ok |-> rest.ok, pos |-> rest.pos, fields |-> <<r.value>> \o rest.fields]
        level(r) ==
            IF ~r.ok THEN [ok |-> FALSE, pos |-> r.pos, fields |-> <<>>]
            ELSE push(r, read_level_values(f, r.pos, number_of_levels - 1, type))
    IN IF number_of_levels = 0 THEN [ok |-> TRUE, pos |-> p, fields |-> <<>>]
       ELSE level(read_field(f, p, type))

\* what a from_reader returns: Ok(section), Err(error) or a panic; detail is
\* what the error's message reports
Decoded(p, section) == [status |-> "ok", pos |-> p, section |-> section, detail |-> <<>>]
Failed(status, p) == [status |-> status, pos |-> p, section |-> <<>>, detail |-> <<>>]
FailedWith(status, p, detail) ==
    [status |-> status, pos |-> p, section |-> <<>>, detail |-> detail]

\* the error of a validate_u8 or validate_u32 that did not return Ok: a
\* mismatch reports the value read and the value expected
Invalid(v) ==
    IF v.status = "Unexpected"
    THEN FailedWith("Unexpected", v.pos, <<v.value, v.expected>>)
    ELSE Failed(v.status, v.pos)

\* Template3_0::from_reader reads these fields, in this order
Template3_0 ==
    <<"u8", "u8", "u32", "u8", "u32", "u8", "u32", "u32", "u32", "u32", "u32",
      "u32", "u32", "u8", "u32", "u32", "u32", "u32", "u8">>

\* Template4_0::from_reader reads these fields, in this order
Template4_0 ==
    <<"u8", "u8", "u8", "u8", "u8", "u16", "u8", "u8", "i32", "u8", "u8", "u32",
      "u8", "u8", "u32">>

\* Section3<T>::from_reader
Section3_from_reader(f, p, T) ==
    LET section_bytes == read_uint(f, p, 4)
        number == validate_u8(f, section_bytes.pos, 3)
        head == read_fields(f, number.pos, <<"u8", "u32", "u8", "u8", "u16">>, 1)
        template3 == read_fields(f, head.pos, T, 1)
    IN IF ~section_bytes.ok THEN Failed("ReadError", section_bytes.pos)
       ELSE IF number.status # "ok" THEN Invalid(number)
       ELSE IF ~head.ok THEN Failed("ReadError", head.pos)
       ELSE IF ~template3.ok THEN Failed("ReadError", template3.pos)
       ELSE Decoded(template3.pos,
                [section_bytes |-> section_bytes.value,
                 source_of_grid_definition |-> head.fields[1],
                 number_of_data_points |-> head.fields[2],
                 number_of_octets_for_number_of_points |-> head.fields[3],
                 description_of_number_of_points |-> head.fields[4],
                 grid_definition_template_number |-> head.fields[5],
                 template3 |-> template3.fields])

\* Section4<T>::from_reader
Section4_from_reader(f, p, T) ==
    LET section_bytes == read_uint(f, p, 4)
        number == validate_u8(f, section_bytes.pos, 4)
        head == read_fields(f, number.pos, <<"u16", "u16">>, 1)
        template4 == read_fields(f, head.pos, T, 1)
    IN IF ~section_bytes.ok THEN Failed("ReadError", section_bytes.pos)
       ELSE IF number.status # "ok" THEN Invalid(number)
       ELSE IF ~head.ok THEN Failed("ReadError", head.pos)
       ELSE IF ~template4.ok THEN Failed(template4.status, template4.pos)
       ELSE Decoded(template4.pos,
                [section_bytes |-> section_bytes.value,
                 number_of_after_template_points |-> head.fields[1],
                 product_definition_template_number |-> head.fields[2],
                 template4 |-> template4.fields])

\* Template5_200u16::from_reader.  section_bytes - 10 - 6 is computed in
\* usize: below 16 it overflows, which panics at the subtraction with
\* overflow checks and at Vec::with_capacity (capacity overflow) without.  A
\* section_bytes of 2^31 or more (a negative residue) asks for more values
\* than any file of the model holds.
Template5_200_from_reader(f, p, section_bytes) ==
    LET head == read_fields(f, p, <<"u8", "u16", "u16", "u8">>, 1)
        number_of_levels == IF section_bytes < 0 THEN Len(f)
                            ELSE (section_bytes - 10 - 6) \div 2
        level_values == read_level_values(f, head.pos, number_of_levels, "u16")
    IN IF ~head.ok THEN Failed("ReadError", head.pos)
       ELSE IF 0 <= section_bytes /\ section_bytes < 16 THEN Failed("panic", head.pos)
       ELSE IF ~level_values.ok THEN Failed("ReadError", level_values.pos)
       ELSE Decoded(level_values.pos,
                [bits_per_value |-> head.fields[1],
                 max_level_value |-> head.fields[2],
                 number_of_level_values |-> head.fields[3],
                 decimal_scale_factor |-> head.fields[4],
                 level_values |-> level_values.fields])

\* Section5<T>::from_reader, T = Template5_200u16
Section5_from_reader(f, p) ==
    LET section_bytes == read_uint(f, p, 4)
        number == validate_u8(f, section_bytes.pos, 5)
        head == read_fields(f, number.pos, <<"u32", "u16">>, 1)
        template5 == Template5_200_from_reader(f, head.pos, section_bytes.value)
    IN IF ~section_bytes.ok THEN Failed("ReadError", section_bytes.pos)
       ELSE IF number.status # "ok" THEN Invalid(number)
       ELSE IF ~head.ok THEN Failed("ReadError", head.pos)
       ELSE IF template5.status # "ok" THEN template5
       ELSE Decoded(template5.pos,
                [section_bytes |-> section_bytes.value,
                 number_of_values |-> head.fields[1],
                 data_representation_template_number |-> head.fields[2],
                 template5 |-> template5.section])

----------------------------------------------------------------------------
(* The section decoders of the GRIB2 reader (grib2/sections, dispatching on *)
(* the template number) and the remaining decoders of the product readers  *)
(* (readers/sections)                                                      *)

\* the lengths sections 1 and 6 must declare in the product readers
SECTION1_BYTES == 21
SECTION6_BYTES == 6

\* b"GRIB"
GRIB == <<71, 82, 73, 66>>

\* SECTION8_MARKER.as_bytes() (SECTION8_END_MARKER in readers/sections)
SECTION8_MARKER == <<55, 55, 55, 55>>

\* the decoder with the magic compared after the other fields are read
Section0_magic_last(f, p) ==
    LET grib == read_bytes(f, p, 4)
        rest == read_fields(f, grib.pos, <<"bytes2", "u8", "u8", "u64">>, 1)
    IN IF ~grib.ok THEN Failed("ReadError", grib.pos)
       ELSE IF ~rest.ok THEN Failed(rest.status, rest.pos)
       ELSE IF grib.value # GRIB THEN Failed("ReadError", rest.pos)
       ELSE Decoded(rest.pos,
                [grib |-> grib.value, reserved |-> rest.fields[1],
                 field |-> rest.fields[2], editions |-> rest.fields[3],
                 total_bytes |-> rest.fields[4]])

\* Section0::from_reader, the same in both modules
Section0_from_reader(f, p) ==
    LET grib == read_bytes(f, p, 4)
        rest == read_fields(f, grib.pos, <<"bytes2", "u8", "u8", "u64">>, 1)
    IN IF ~grib.ok THEN Failed("ReadError", grib.pos)
       ELSE IF grib.value # GRIB THEN Failed("ReadError", grib.pos)
       ELSE IF ~rest.ok THEN Failed(rest.status, rest.pos)
       ELSE Decoded(rest.pos,
                [grib |-> grib.value, reserved |-> rest.fields[1],
                 field |-> rest.fields[2], editions |-> rest.fields[3],
                 total_bytes |-> rest.fields[4]])

\* the fields of section 1 after the section number
Section1Layout == <<"u16", "u16", "u8", "u8", "u8", "datetime", "u8", "u8">>

\* what Section1::from_reader returns once the length and the number are read
Section1_body(f, section_bytes, number) ==
    LET body == read_fields(f, number.pos, Section1Layout, 1)
    IN IF section_bytes.status # "ok" THEN Invalid(section_bytes)
       ELSE IF number.status # "ok" THEN Invalid(number)
       ELSE IF ~body.ok THEN Failed(body.status, body.pos)
       ELSE Decoded(body.pos,
                [section_bytes |-> section_bytes.value,
                 section_number |-> number.value,
                 center |-> body.fields[1], sub_center |-> body.fields[2],
                 table_version |-> body.fields[3],
                 local_table_version |-> body.fields[4],
                 significance_of_reference_time |-> body.fields[5],
                 referenced_at |-> body.fields[6],
                 production_status_of_processed_data |-> body.fields[7],
                 type_of_processed_data |-> body.fields[8]])

\* a read_u32(..)? in the shape of a validate_u32 that accepts every value
any_u32(f, p) ==
    LET r == read_uint(f, p, 4) IN
    [status |-> IF r.ok THEN "ok" ELSE "ReadError", pos |-> r.pos, value |-> r.value,
     expected |-> r.value]

\* grib2::sections::Section1::from_reader: any length
grib2_Section1_from_reader(f, p) ==
    LET section_bytes == any_u32(f, p)
    IN Section1_body(f, section_bytes, validate_u8(f, section_bytes.pos, 1))

\* readers::sections::Section1::from_reader: the length must be SECTION1_BYTES
readers_Section1_from_reader(f, p) ==
    LET section_bytes == validate_u32(f, p, SECTION1_BYTES)
    IN Section1_body(f, section_bytes, validate_u8(f, section_bytes.pos, 1))

\* Section2::from_reader reads nothing (the product readers write Section2)
Section2_from_reader(f, p) == Decoded(p, "Section2")

\* grib2::sections::Section3::from_reader and read_section3_0
grib2_Section3_from_reader(f, p) ==
    LET section_bytes == read_uint(f, p, 4)
        number == validate_u8(f, section_bytes.pos, 3)
        head == read_fields(f, number.pos, <<"u8", "u32", "u8", "u8", "u16">>, 1)
        template3 == read_fields(f, head.pos, Template3_0, 1)
    IN IF ~section_bytes.ok THEN Failed("ReadError", section_bytes.pos)
       ELSE IF number.status # "ok" THEN Invalid(number)
       ELSE IF ~head.ok THEN Failed("ReadError", head.pos)
       ELSE IF head.fields[5] # 0
            THEN FailedWith("NotImplemented", head.pos, <<head.fields[5]>>)
       ELSE IF ~template3.ok THEN Failed("ReadError", template3.pos)
       ELSE Decoded(template3.pos,
                [section_bytes |-> section_bytes.value,
                 section_number |-> number.value,
                 source_of_grid_definition |-> head.fields[1],
                 number_of_data_points |-> head.fields[2],
                 number_of_octets_for_number_of_points |-> head.fields[3],
                 description_of_number_of_points |-> head.fields[4],
                 grid_definition_template_number |-> head.fields[5],
                 template3 |-> template3.fields])

\* Template4_50008::from_reader and read_section4_50008 read these fields
Template4_50008 ==
    Template4_0 \o <<"datetime", "u8", "u32", "u8", "u8", "u8", "u32", "u8", "u32",
                     "u64", "u64", "u64">>

\* the decoder with the template's fields read before the template number is
\* looked at
grib2_Section4_template_first(f, p) ==
    LET section_bytes == read_uint(f, p, 4)
        number == validate_u8(f, section_bytes.pos, 4)
        head == read_fields(f, number.pos, <<"u16", "u16">>, 1)
        template4 == read_fields(f, head.pos,
                         IF head.fields[2] = 0 THEN Template4_0 ELSE Template4_50008, 1)
    IN IF ~section_bytes.ok THEN Failed("ReadError", section_bytes.pos)
       ELSE IF number.status # "ok" THEN Invalid(number)
       ELSE IF ~head.ok THEN Failed("ReadError", head.pos)
       ELSE IF ~template4.ok THEN Failed(template4.status, template4.pos)
       ELSE IF head.fields[2] \notin {0, 50008}
            THEN FailedWith("NotImplemented", template4.pos, <<head.fields[2]>>)
       ELSE Decoded(template4.pos,
                [section_bytes |-> section_bytes.value,
                 section_number |-> number.value,
                 number_of_after_template_points |-> head.fields[1],
                 product_definition_template_number |-> head.fields[2],
                 template4 |-> template4.fields])

\* grib2::sections::Section4::from_reader, read_section4_0, read_section4_50008
grib2_Section4_from_reader(f, p) ==
    LET section_bytes == read_uint(f, p, 4)
        number == validate_u8(f, section_bytes.pos, 4)
        head == read_fields(f, number.pos, <<"u16", "u16">>, 1)
        template4 == read_fields(f, head.pos,
                         IF head.fields[2] = 0 THEN Template4_0 ELSE Template4_50008, 1)
    IN IF ~section_bytes.ok THEN Failed("ReadError", section_bytes.pos)
       ELSE IF number.status # "ok" THEN Invalid(number)
       ELSE IF ~head.ok THEN Failed("ReadError", head.pos)
       ELSE IF head.fields[2] \notin {0, 50008}
            THEN FailedWith("NotImplemented", head.pos, <<head.fields[2]>>)
       ELSE IF ~template4.ok THEN Failed(template4.status, template4.pos)
       ELSE Decoded(template4.pos,
                [section_bytes |-> section_bytes.value,
                 section_number |-> number.value,
                 number_of_after_template_points |-> head.fields[1],
                 product_definition_template_number |-> head.fields[2],
                 template4 |-> template4.fields])

\* read_section5_200 and Template5_200u16::from_reader: value is how a level
\* value is read ("bytes2": the two bytes as they are; "u16": read_u16).
\* section_bytes - 10 - 6 is computed in usize: below 16 it overflows, which
\* panics at the subtraction with overflow checks and at Vec::with_capacity
\* (capacity overflow) without.  A section_bytes of 2^31 or more (a negative
\* residue) asks for more values than any file of the model holds.
read_section5_200(f, p, section_bytes, value) ==
    LET head == read_fields(f, p, <<"u8", "u16", "u16", "u8">>, 1)
        number_of_levels == IF section_bytes < 0 THEN Len(f)
                            ELSE (section_bytes - 10 - 6) \div 2
        level_values == read_level_values(f, head.pos, number_of_levels, value)
    IN IF ~head.ok THEN Failed("ReadError", head.pos)
       ELSE IF 0 <= section_bytes /\ section_bytes < 16 THEN Failed("panic", head.pos)
       ELSE IF ~level_values.ok THEN Failed("ReadError", level_values.pos)
       ELSE Decoded(level_values.pos,
                [bits_per_value |-> head.fields[1],
                 max_level_value |-> head.fields[2],
                 number_of_level_values |-> head.fields[3],
                 decimal_scale_factor |-> head.fields[4],
                 level_values |-> level_values.fields])

\* grib2::sections::Section5::from_reader
grib2_Section5_from_reader(f, p) ==
    LET section_bytes == read_uint(f, p, 4)
        number == validate_u8(f, section_bytes.pos, 5)
        head == read_fields(f, number.pos, <<"u32", "u16">>, 1)
        template5 == read_section5_200(f, head.pos, section_bytes.value, "bytes2")
    IN IF ~section_bytes.ok THEN Failed("ReadError", section_bytes.pos)
       ELSE IF number.status # "ok" THEN Invalid(number)
       ELSE IF ~head.ok THEN Failed("ReadError", head.pos)
       ELSE IF head.fields[2] # 200
            THEN FailedWith("NotImplemented", head.pos, <<head.fields[2]>>)
       ELSE IF template5.status # "ok" THEN template5
       ELSE Decoded(template5.pos,
                [section_bytes |-> section_bytes.value,
                 section_number |-> number.value,
                 number_of_values |-> head.fields[1],
                 data_representation_template_number |-> head.fields[2],
                 template5 |-> template5.section])

\* what Section6::from_reader returns once the length and the number are read
Section6_body(f, section_bytes, number) ==
    LET bitmap_indicator == read_uint(f, number.pos, 1)
    IN IF section_bytes.status # "ok" THEN Invalid(section_bytes)
       ELSE IF number.status # "ok" THEN Invalid(number)
       ELSE IF ~bitmap_indicator.ok THEN Failed("ReadError", bitmap_indicator.pos)
       ELSE Decoded(bitmap_indicator.pos,
                [section_bytes |-> section_bytes.value,
                 section_number |-> number.value,
                 bitmap_indicator |-> bitmap_indicator.value])

\* grib2::sections::Section6::from_reader: any length
grib2_Section6_from_reader(f, p) ==
    LET section_bytes == any_u32(f, p)
    IN Section6_body(f, section_bytes, validate_u8(f, section_bytes.pos, 6))

\* readers::sections::Section6::from_reader: the length must be SECTION6_BYTES
readers_Section6_from_reader(f, p) ==
    LET section_bytes == validate_u32(f, p, SECTION6_BYTES)
    IN Section6_body(f, section_bytes, validate_u8(f, section_bytes.pos, 6))

\* Template7_200::from_reader (and the same lines of grib2's
\* Section7::from_reader): remember the position, skip the run-length octets.
\* section_bytes - 5 is computed in usize: below 5 it panics with overflow
\* checks and wraps without them, and the wrapped value cast to i64 is
\* section_bytes - 5 again, a seek backwards.  A seek before the start of the
\* file is an error; a seek past its end is not.
Template7_200_from_reader(f, p, section_bytes, checks) ==
    LET run_length_position == p
        run_length_bytes == section_bytes - 5
    IN IF 0 <= section_bytes /\ section_bytes < 5 /\ checks THEN Failed("panic", p)
       ELSE IF p + run_length_bytes < 0 THEN Failed("ReadError", p)
       ELSE Decoded(p + run_length_bytes,
                [run_length_position |-> run_length_position,
                 run_length_bytes |-> run_length_bytes])

\* Section7::from_reader, the same steps in both modules
Section7_from_reader(f, p, checks) ==
    LET section_bytes == read_uint(f, p, 4)
        number == validate_u8(f, section_bytes.pos, 7)
        template7 == Template7_200_from_reader(f, number.pos, section_bytes.value, checks)
    IN IF ~section_bytes.ok THEN Failed("ReadError", section_bytes.pos)
       ELSE IF number.status # "ok" THEN Invalid(number)
       ELSE IF template7.status # "ok" THEN template7
       ELSE Decoded(template7.pos,
                [section_bytes |-> section_bytes.value,
                 section_number |-> number.value,
                 run_length_position |-> template7.section.run_length_position,
                 run_length_bytes |-> template7.section.run_length_bytes])

\* the decoder with the four octets taken as they are
Section8_any_marker(f, p) ==
    LET marker == read_bytes(f, p, 4)
    IN IF ~marker.ok THEN Failed("ReadError", marker.pos)
       ELSE Decoded(marker.pos, [marker |-> marker.value])

\* Section8::from_reader, the same in both modules
Section8_from_reader(f, p) ==
    LET marker == read_bytes(f, p, 4)
    IN IF ~marker.ok THEN Failed("ReadError", marker.pos)
       ELSE IF marker.value # SECTION8_MARKER
            THEN FailedWith("Unexpected", marker.pos, <<SECTION8_MARKER, marker.value>>)
       ELSE Decoded(marker.pos, [marker |-> marker.value])

\* to_be_bytes of a u16 and of a u32 below 2^16, for writing files
be16(n) == <<n \div 256, n % 256>>
be32(n) == <<0, 0>> \o be16(n)

\* the template body of a section: n octets
Octets(n) == [i \in 1..n |-> i % 5]

\* a section 3 of 72 octets: a 14-octet head and the 58 octets of template 3.0
Section3Bytes(number, template_number) ==
    be32(72) \o <<number, 0>> \o be32(12) \o <<0, 0>> \o be16(template_number)
    \o Octets(58)

\* a section 4 of 34 octets: a 9-octet head and the 25 octets of template 4.0
Section4Bytes(number, template_number) ==
    be32(34) \o <<number>> \o be16(0) \o be16(template_number) \o Octets(25)

\* a section 5 that declares section_bytes octets and holds a table of
\* three level values
Section5Bytes(number, template_number, section_bytes) ==
    be32(section_bytes) \o <<number>> \o be32(12) \o be16(template_number)
    \o <<4>> \o be16(10) \o be16(10) \o <<0>> \o be16(5) \o be16(7) \o be16(9)

\* the files the product reader is run on: every section carries its own or
\* a foreign section number and template number, section 5 declares its
\* length right, one short or too small, and the file may end early
Files ==
    {SubSeq(whole, 1, IF cut < Len(whole) THEN cut ELSE Len(whole)) :
        whole \in {Section3Bytes(n3, t3) \o Section4Bytes(n4, t4) \o Section5Bytes(n5, t5, b5) :
                       n3 \in {3, 4}, t3 \in {0, 1, 200},
                       n4 \in {4}, t4 \in {0, 1, 50000},
                       n5 \in {5, 7}, t5 \in {200, 0, 201},
                       b5 \in {23, 21, 12}},
        cut \in {3, 4, 40, 72, 90, 106, 120, 129}}

InitSect ==
    /\ IterIdle
    /\ FnIdle
    /\ ProductIdle
    /\ file \in Files
    /\ pos = 0
    /\ stage = "section3"
    /\ section3 = None
    /\ section4 = None
    /\ section5 = None
    /\ failure = None
    /\ OpenIdle

\* the stage that follows when the error of a from_reader is not returned
after_error_ignored(r, then) ==
    CASE r.status = "panic" -> "aborted"
      [] OTHER -> then

\* what stage follows a from_reader: `?` returns the error to the caller
after(r, then) ==
    CASE r.status = "ok" -> then
      [] r.status = "panic" -> "aborted"
      [] OTHER -> "failed"

error_of(r) == IF r.status \in {"ok", "panic"} THEN None ELSE Some(r.status)

\* let section3 = Section3_0::from_reader(&mut reader)?;
ReadSection3 ==
    /\ stage = "section3"
    /\ LET r == Section3_from_reader(file, pos, Template3_0) IN
       /\ pos' = r.pos
       /\ section3' = IF r.status = "ok" THEN Some(r.section) ELSE None
       /\ failure' = error_of(r)
       /\ stage' = after(r, "section4")
    /\ UNCHANGED <<file, section4, section5, open_vars, iter_vars, fn_vars, product_vars>>

\* let section4 = Section4_0::from_reader(reader)?;
ReadSection4 ==
    /\ stage = "section4"
    /\ LET r == Section4_from_reader(file, pos, Template4_0) IN
       /\ pos' = r.pos
       /\ section4' = IF r.status = "ok" THEN Some(r.section) ELSE None
       /\ failure' = error_of(r)
       /\ stage' = after(r, "section5")
    /\ UNCHANGED <<file, section3, section5, open_vars, iter_vars, fn_vars, product_vars>>

\* let section5 = Section5_200u16::from_reader(reader)?;
ReadSection5 ==
    /\ stage = "section5"
    /\ LET r == Section5_from_reader(file, pos) IN
       /\ pos' = r.pos
       /\ section5' = IF r.status = "ok" THEN Some(r.section) ELSE None
       /\ failure' = error_of(r)
       /\ stage' = after(r, "section6")
    /\ UNCHANGED <<file, section3, section4, open_vars, iter_vars, fn_vars, product_vars>>

NextSect == ReadSection3 \/ ReadSection4 \/ ReadSection5

SpecSect == InitSect /\ [][NextSect]_vars

----------------------------------------------------------------------------
(* Opening a file: Grib2Reader::new (grib2/reader.rs) and PrrReader::new   *)
(* (readers/prr.rs), and the record iterators made from the opened reader  *)

\* the octets of template 3.0 for a grid
Template3_0Bytes(p) ==
    <<6, 0>> \o be32(0) \o <<0>> \o be32(0) \o <<0>> \o be32(0)
    \o be32(p.number_of_points \div ((p.lon_max - p.lon_min) \div p.lon_inc + 1))
    \o be32((p.lon_max - p.lon_min) \div p.lon_inc + 1)
    \o be32(0) \o be32(0) \o be32(p.lat_max) \o be32(p.lon_min) \o <<48>>
    \o be32(0) \o be32(p.lon_max) \o be32(p.lon_inc) \o be32(p.lat_inc) \o <<0>>

\* the octets of template 4.0 and of template 4.50008 (4.0, the end of the
\* time interval, the statistics and the three u64 of operation information)
Template4Bytes(template_number) ==
    IF template_number = 50008
    THEN Octets(25) \o be16(2023) \o <<7, 1, 12, 0, 0>> \o Octets(41)
    ELSE Octets(25)

\* the octets of the level table: two for each level value
RECURSIVE LevelBytes(_)
LevelBytes(level_values) ==
    IF level_values = <<>> THEN <<>>
    ELSE be16(Head(level_values)) \o LevelBytes(Tail(level_values))

\* a GRIB2 file for a grid and a run-length stream.  v says what the file's
\* validated fields hold: the first octet, the length and number of section
\* 1, the month of the reference time, the numbers and template numbers of
\* sections 3 to 7, the lengths sections 5, 6 and 7 declare (0: the right
\* one), the octets of section 8, and how many octets are cut off the end.
GribFile(p, payload, v) ==
    LET s0 == <<v.grib, 82, 73, 66, 0, 0, 0, 2>> \o be32(0) \o be32(0)
        s1 == be32(v.len1) \o <<v.n1>> \o be16(34) \o be16(0) \o <<2, 1, 0>>
              \o be16(2023) \o <<v.month, 1, 12, 0, 0>> \o <<0, 2>>
        s3 == be32(72) \o <<v.n3, 0>> \o be32(p.number_of_points) \o <<0, 0>>
              \o be16(v.t3) \o Template3_0Bytes(p)
        t4 == Template4Bytes(v.t4)
        s4 == be32(9 + Len(t4)) \o <<v.n4>> \o be16(0) \o be16(v.t4) \o t4
        levels == LevelBytes(p.level_values)
        s5 == be32(IF v.len5 = 0 THEN 17 + Len(levels) ELSE v.len5) \o <<v.n5>>
              \o be32(p.number_of_points) \o be16(v.t5)
              \o <<p.nbit>> \o be16(p.maxv) \o be16(p.maxv) \o <<0>> \o levels
        s6 == be32(v.len6) \o <<v.n6, 255>>
        s7 == be32(IF v.len7 = 0 THEN 5 + Len(payload) ELSE v.len7) \o <<v.n7>>
              \o payload
        s8 == <<v.m8, 55, 55, 55>>
        whole == s0 \o s1 \o s3 \o s4 \o s5 \o s6 \o s7 \o s8
    IN SubSeq(whole, 1, Len(whole) - v.cut)

\* a file as the format defines it, with product definition template t4
GoodFile(t4) ==
    [grib |-> 71, len1 |-> 21, n1 |-> 1, month |-> 7, n3 |-> 3, t3 |-> 0,
     n4 |-> 4, t4 |-> t4, n5 |-> 5, t5 |-> 200, len5 |-> 0, len6 |-> 6, n6 |-> 6,
     n7 |-> 7, len7 |-> 0, m8 |-> 55, cut |-> 0]

\* one field of a good file changed
Changes ==
    {<<"grib", 72>>, <<"len1", 22>>, <<"n1", 2>>, <<"month", 13>>,
     <<"n3", 4>>, <<"t3", 1>>, <<"n4", 3>>, <<"t4", 1>>, <<"t4", 50000>>,
     <<"t4", 50009>>, <<"n5", 6>>, <<"t5", 0>>, <<"t5", 201>>,
     <<"len5", 21>>, <<"len5", 24>>, <<"len5", 13>>, <<"len6", 7>>, <<"n6", 7>>,
     <<"n7", 8>>, <<"len7", 3>>, <<"len7", 6>>, <<"len7", 8>>, <<"len7", 12>>,
     <<"m8", 56>>, <<"cut", 1>>, <<"cut", 4>>, <<"cut", 6>>, <<"cut", 12>>,
     <<"cut", 20>>, <<"cut", 40>>, <<"cut", 100>>, <<"cut", 150>>, <<"cut", 175>>}

\* a section whose length and number are both changed
DoubleChanges ==
    {<<"len1", 22, "n1", 2>>, <<"len6", 7, "n6", 7>>, <<"len7", 8, "n7", 8>>}

FileVariants ==
    {GoodFile(t4) : t4 \in {0, 50008}}
    \cup {[GoodFile(t4) EXCEPT ![c[1]] = c[2]] : t4 \in {0, 50008}, c \in Changes}
    \cup {[GoodFile(t4) EXCEPT ![c[1]] = c[2], ![c[3]] = c[4]] :
              t4 \in {0, 50008}, c \in DoubleChanges}

\* the grids and run-length streams of the files
OpenInputs ==
    {<<ParamsA, <<3, 12>>>>, <<ParamsA, <<0, 1>>>>,
     <<ParamsB, <<1, 12, 3, 12>>>>, <<ParamsB, <<0, 15>>>>}

GribFiles == {GribFile(in[1], in[2], v) : in \in OpenInputs, v \in FileVariants}

InitOpen ==
    /\ overflow_checks \in BOOLEAN
    /\ phase = "idle"
    /\ builder = FullBuilder(ParamsE, ExamplePayload)
    /\ reader = [data |-> <<>>, pos |-> 0]
    /\ iter = NoIter
    /\ item = NoItem
    /\ emitted = <<>>
    /\ calls = 0
    /\ FnIdle
    /\ ProductIdle
    /\ kind \in {"Grib2Reader", "PrrReader"}
    /\ file \in GribFiles
    /\ pos = 0
    /\ stage = "section0"
    /\ section0 = None
    /\ section1 = None
    /\ section2 = None
    /\ section3 = None
    /\ section4 = None
    /\ section5 = None
    /\ section6 = None
    /\ section7 = None
    /\ section8 = None
    /\ failure = None
    /\ iterators = <<>>
    /\ loaded = None

\* the Err(Grib2Error) a from_reader returned, with what its message reports
Grib2Error(r) ==
    IF r.status \in {"ok", "panic"} THEN None
    ELSE Some([kind |-> r.status, detail |-> r.detail])

\* let section0 = Section0::from_reader(&mut reader)?;
DecodeSection0 ==
    /\ stage = "section0"
    /\ LET r == Section0_from_reader(file, pos) IN
       /\ pos' = r.pos
       /\ section0' = IF r.status = "ok" THEN Some(r.section) ELSE None
       /\ failure' = Grib2Error(r)
       /\ stage' = after(r, "section1")
    /\ UNCHANGED <<file, kind, iterators, loaded, section1, section2, section3, section4,
                   section5, section6, section7, section8, iter_vars, fn_vars, product_vars>>

\* let section1 = Section1::from_reader(&mut reader)?;
DecodeSection1 ==
    /\ stage = "section1"
    /\ LET r == IF kind = "Grib2Reader" THEN grib2_Section1_from_reader(file, pos)
                 ELSE readers_Section1_from_reader(file, pos) IN
       /\ pos' = r.pos
       /\ section1' = IF r.status = "ok" THEN Some(r.section) ELSE None
       /\ failure' = Grib2Error(r)
       /\ stage' = after(r, "section2")
    /\ UNCHANGED <<file, kind, iterators, loaded, section0, section2, section3, section4,
                   section5, section6, section7, section8, iter_vars, fn_vars, product_vars>>

\* let section2 = Section2::from_reader(&mut reader)?; (PrrReader: Section2)
DecodeSection2 ==
    /\ stage = "section2"
    /\ LET r == Section2_from_reader(file, pos) IN
       /\ pos' = r.pos
       /\ section2' = IF r.status = "ok" THEN Some(r.section) ELSE None
       /\ failure' = Grib2Error(r)
       /\ stage' = after(r, "section3")
    /\ UNCHANGED <<file, kind, iterators, loaded, section0, section1, section3, section4,
                   section5, section6, section7, section8, iter_vars, fn_vars, product_vars>>

\* let section3 = Section3::from_reader(&mut reader)?; (PrrReader: Section3_0)
DecodeSection3 ==
    /\ stage = "section3"
    /\ LET r == IF kind = "Grib2Reader" THEN grib2_Section3_from_reader(file, pos)
                 ELSE Section3_from_reader(file, pos, Template3_0) IN
       /\ pos' = r.pos
       /\ section3' = IF r.status = "ok" THEN Some(r.section) ELSE None
       /\ failure' = Grib2Error(r)
       /\ stage' = after(r, "section4")
    /\ UNCHANGED <<file, kind, iterators, loaded, section0, section1, section2, section4,
                   section5, section6, section7, section8, iter_vars, fn_vars, product_vars>>

\* let section4 = Section4::from_reader(&mut reader)?; (PrrReader: Section4_50008)
DecodeSection4 ==
    /\ stage = "section4"
    /\ LET r == IF kind = "Grib2Reader" THEN grib2_Section4_from_reader(file, pos)
                 ELSE Section4_from_reader(file, pos, Template4_50008) IN
       /\ pos' = r.pos
       /\ section4' = IF r.status = "ok" THEN Some(r.section) ELSE None
       /\ failure' = Grib2Error(r)
       /\ stage' = after(r, "section5")
    /\ UNCHANGED <<file, kind, iterators, loaded, section0, section1, section2, section3,
                   section5, section6, section7, section8, iter_vars, fn_vars, product_vars>>

\* let section5 = Section5::from_reader(&mut reader)?; (PrrReader: Section5_200u16)
DecodeSection5 ==
    /\ stage = "section5"
    /\ LET r == IF kind = "Grib2Reader" THEN grib2_Section5_from_reader(file, pos)
                 ELSE Section5_from_reader(file, pos) IN
       /\ pos' = r.pos
       /\ section5' = IF r.status = "ok" THEN Some(r.section) ELSE None
       /\ failure' = Grib2Error(r)
       /\ stage' = after(r, "section6")
    /\ UNCHANGED <<file, kind, iterators, loaded, section0, section1, section2, section3,
                   section4, section6, section7, section8, iter_vars, fn_vars, product_vars>>

\* let section6 = Section6::from_reader(&mut reader)?;
DecodeSection6 ==
    /\ stage = "section6"
    /\ LET r == IF kind = "Grib2Reader" THEN grib2_Section6_from_reader(file, pos)
                 ELSE readers_Section6_from_reader(file, pos) IN
       /\ pos' = r.pos
       /\ section6' = IF r.status = "ok" THEN Some(r.section) ELSE None
       /\ failure' = Grib2Error(r)
       /\ stage' = after(r, "section7")
    /\ UNCHANGED <<file, kind, iterators, loaded, section0, section1, section2, section3,
                   section4, section5, section7, section8, iter_vars, fn_vars, product_vars>>

\* let section7 = Section7::from_reader(&mut reader)?; (PrrReader: Section7_200)
DecodeSection7 ==
    /\ stage = "section7"
    /\ LET r == Section7_from_reader(file, pos, overflow_checks) IN
       /\ pos' = r.pos
       /\ section7' = IF r.status = "ok" THEN Some(r.section) ELSE None
       /\ failure' = Grib2Error(r)
       /\ stage' = after(r, "section8")
    /\ UNCHANGED <<file, kind, iterators, loaded, section0, section1, section2, section3,
                   section4, section5, section6, section8, iter_vars, fn_vars, product_vars>>

\* let section8 = Section8::from_reader(&mut reader)?; Ok(Self { .. })
DecodeSection8 ==
    /\ stage = "section8"
    /\ LET r == Section8_from_reader(file, pos) IN
       /\ pos' = r.pos
       /\ section8' = IF r.status = "ok" THEN Some(r.section) ELSE None
       /\ failure' = Grib2Error(r)
       /\ stage' = after(r, "opened")
    /\ UNCHANGED <<file, kind, iterators, loaded, section0, section1, section2, section3,
                   section4, section5, section6, section7, iter_vars, fn_vars, product_vars>>

\* the builder record_iter fills from the sections of the opened reader
record_iter_builder ==
    LET s3 == unwrap(section3)
        s5 == unwrap(section5)
        s7 == unwrap(section7)
    IN [reader |-> Some(TRUE),
        total_bytes |-> Some(s7.run_length_bytes),
        number_of_points |-> Some(s3.number_of_data_points),
        lat_max |-> Some(s3.template3[12]),
        lon_min |-> Some(s3.template3[13]),
        lon_max |-> Some(s3.template3[16]),
        lat_inc |-> Some(s3.template3[18]),
        lon_inc |-> Some(s3.template3[17]),
        nbit |-> Some(s5.template5.bits_per_value),
        maxv |-> Some(s5.template5.max_level_value),
        level_values |-> Some(s5.template5.level_values)]

\* Grib2Reader::record_iter and PrrReader::record_iter: seek the reader to
\* run_length_position and build an iterator that starts from scratch.  The
\* reader is the one the file was opened with: it stands where the open left
\* it or, when an iterator was made before and has been dropped, where that
\* iterator left it.
RecordIter ==
    /\ stage = "opened"
    /\ phase # "aborted"
    /\ Len(iterators) < MaxIterators
    /\ LET r == build(record_iter_builder, overflow_checks) IN
       /\ builder' = record_iter_builder
       /\ reader' = seek([data |-> file,
                            pos |-> IF iterators = <<>> THEN pos ELSE reader.pos],
                           unwrap(section7).run_length_position)
       /\ iter' = r.iter
       /\ phase' = CASE r.status = "ok" -> "iterating"
                     [] r.status = "err" -> "build_err"
                     [] OTHER -> "aborted"
       /\ item' = CASE r.status = "err" -> ErrItem("RuntimeError", 0, 0)
                    [] r.status = "panic" -> PanicItem
                    [] OTHER -> NoItem
    /\ emitted' = <<>>
    /\ calls' = 0
    /\ iterators' = Append(iterators, IF iterators = <<>> THEN pos ELSE reader.pos)
    /\ UNCHANGED <<overflow_checks, fn_vars, product_vars, file, pos, stage, failure, kind, loaded,
                   section0, section1, section2, section3, section4, section5,
                   section6, section7, section8>>

NextOpen ==
    \/ DecodeSection0 \/ DecodeSection1 \/ DecodeSection2 \/ DecodeSection3
    \/ DecodeSection4 \/ DecodeSection5 \/ DecodeSection6 \/ DecodeSection7
    \/ DecodeSection8 \/ RecordIter \/ CallNext

SpecOpen == InitOpen /\ [][NextOpen]_vars

----------------------------------------------------------------------------
(* The materializing readers: read_preps (grib2_2/src/readers/fprr.rs),    *)
(* read_tank_indexes (src/readers/fpsw.rs) and read_precipitation          *)
(* (src/readers/fprr.rs) build an iterator and collect what it returns     *)

\* what the function returns to the open that called it with `?`
LoadedOk(records) ==
    Some([status |-> "Ok", values |-> [i \in 1..Len(records) |-> records[i].value]])
LoadedErr(e) == Some([status |-> "Err", values |-> <<>>, err |-> e])

\* the function is entered with the sections of a forecast block: every
\* field of the builder is set from them, and the stream is the file from
\* run_length_position on
InitLoad ==
    /\ overflow_checks \in BOOLEAN
    /\ phase = "loading"
    /\ \E in \in Inputs :
          /\ builder = FullBuilder(in[1], in[2])
          /\ \E d \in Sources(in[2]) : reader = [data |-> d, pos |-> 0]
    /\ iter = NoIter
    /\ item = NoItem
    /\ emitted = <<>>
    /\ calls = 0
    /\ FnIdle
    /\ ProductIdle
    /\ SectIdle

\* reader.seek(SeekFrom::Start(run_length_position)) and
\* let iter = Grib2RecordIterBuilder::new()...build()?;
LoadBuild ==
    /\ phase = "loading"
    /\ LET r == build(builder, overflow_checks) IN
       /\ phase' = CASE r.status = "ok" -> "flatten"
                     [] r.status = "err" -> "returned"
                     [] OTHER -> "aborted"
       /\ iter' = r.iter
       /\ item' = CASE r.status = "err" -> ErrItem("RuntimeError", 0, 0)
                    [] r.status = "panic" -> PanicItem
                    [] OTHER -> NoItem
       /\ loaded' = IF r.status = "err" THEN LoadedErr("RuntimeError") ELSE None
    /\ reader' = seek(reader, 0)
    /\ UNCHANGED <<overflow_checks, builder, emitted, calls, fn_vars, product_vars, file, pos,
                   stage, section3, section4, section5, failure, kind, section0,
                   section1, section2, section6, section7, section8, iterators>>

\* one turn of `for record in iter.flatten() { values.push(record.value) }`:
\* flatten() calls next(); an Ok(record) goes to the loop body, an Err is an
\* empty inner iterator and flatten() goes on to the next item, None ends the
\* loop and the function returns Ok(values)
LoadNext ==
    /\ phase = "flatten"
    /\ calls < MaxCalls
    /\ LET r == next_item([iter |-> iter, reader |-> reader], overflow_checks) IN
       /\ iter' = r.s.iter
       /\ reader' = r.s.reader
       /\ item' = r.item
       /\ emitted' = IF r.item.kind = "record"
                     THEN Append(emitted, Grib2Record(r.item))
                     ELSE emitted
       /\ phase' = CASE r.item.kind = "panic" -> "aborted"
                     [] r.item.kind = "end" -> "returned"
                     [] OTHER -> phase
       /\ loaded' = IF r.item.kind = "end" THEN LoadedOk(emitted) ELSE None
    /\ calls' = calls + 1
    /\ UNCHANGED <<overflow_checks, builder, fn_vars, product_vars, file, pos, stage, section3,
                   section4, section5, failure, kind, section0, section1, section2,
                   section6, section7, section8, iterators>>

NextLoad == LoadBuild \/ LoadNext

SpecLoad == InitLoad /\ [][NextLoad]_vars

----------------------------------------------------------------------------
(* Grib2RecordIterBuilder of grib2/reader.rs: the builder that also takes  *)
(* run_length_position and seeks the reader to it in build()               *)

grib2_BuilderFields ==
    <<"reader", "run_length_position", "run_length_bytes", "number_of_points",
      "lat_max", "lon_min", "lon_max", "lat_inc", "lon_inc", "nbit", "maxv",
      "level_values">>

\* the first field of fields, in that order, that was never set; 0 if none
RECURSIVE first_unset_of(_, _, _)
first_unset_of(fields, b, i) ==
    IF i > Len(fields) THEN 0
    ELSE IF ~is_some(b[fields[i]]) THEN i
    ELSE first_unset_of(fields, b, i + 1)

\* the fields the iterator is made of: total_bytes: run_length_bytes
grib2_iter_fields(b) ==
    [reader |-> b.reader, total_bytes |-> b.run_length_bytes,
     number_of_points |-> b.number_of_points, lat_max |-> b.lat_max,
     lon_min |-> b.lon_min, lon_max |-> b.lon_max, lat_inc |-> b.lat_inc,
     lon_inc |-> b.lon_inc, nbit |-> b.nbit, maxv |-> b.maxv,
     level_values |-> b.level_values]

\* build() with the seek done first, before the fields are looked at
grib2_build_seek_first(b, rd, checks) ==
    LET missing == first_unset_of(grib2_BuilderFields, b, 1)
        seeked == seek(rd, IF is_some(b.run_length_position)
                           THEN unwrap(b.run_length_position) ELSE 0)
    IN IF missing # 0
       THEN [status |-> "err", field |-> grib2_BuilderFields[missing], iter |-> NoIter,
             reader |-> seeked]
       ELSE [status |-> build(grib2_iter_fields(b), checks).status, field |-> "",
             iter |-> build(grib2_iter_fields(b), checks).iter, reader |-> seeked]

\* build() of grib2/reader.rs: every field is taken with ok_or_else(..)?, in
\* the order of grib2_BuilderFields; then the reader is moved to
\* run_length_position (a seek from the start of a file cannot fail); then
\* the iterator is made, as by the builder of readers/records.rs:
\* [status, field, iter, reader]
grib2_build(b, rd, checks) ==
    LET missing == first_unset_of(grib2_BuilderFields, b, 1)
    IN IF missing # 0
       THEN [status |-> "err", field |-> grib2_BuilderFields[missing], iter |-> NoIter,
             reader |-> rd]
       ELSE [status |-> build(grib2_iter_fields(b), checks).status, field |-> "",
             iter |-> build(grib2_iter_fields(b), checks).iter,
             reader |-> seek(rd, unwrap(b.run_length_position))]

\* the builder of grib2/reader.rs with every setter called
grib2_FullBuilder(p, payload) ==
    [reader |-> Some(TRUE), run_length_position |-> Some(0),
     run_length_bytes |-> Some(Len(payload)),
     number_of_points |-> Some(p.number_of_points), lat_max |-> Some(p.lat_max),
     lon_min |-> Some(p.lon_min), lon_max |-> Some(p.lon_max),
     lat_inc |-> Some(p.lat_inc), lon_inc |-> Some(p.lon_inc),
     nbit |-> Some(p.nbit), maxv |-> Some(p.maxv),
     level_values |-> Some(p.level_values)]

\* b with the setters of the fields in unset never called
Without(b, unset) == [f \in DOMAIN b |-> IF f \in unset THEN None ELSE b[f]]

\* the builders of the example with any of the setter calls left out
BuildersOf(b) == {Without(b, unset) : unset \in SUBSET DOMAIN b}

\* a builder of either module, any of its fields unset; the reader it
\* borrows stands at the end of the file, where opening the file left it
InitBuild ==
    /\ overflow_checks \in BOOLEAN
    /\ \/ /\ phase = "builder"
          /\ builder \in BuildersOf(FullBuilder(ParamsE, ExamplePayload))
       \/ /\ phase = "grib2_builder"
          /\ builder \in BuildersOf(grib2_FullBuilder(ParamsE, ExamplePayload))
    /\ reader = [data |-> ExamplePayload \o End7777,
                 pos |-> Len(ExamplePayload \o End7777)]
    /\ iter = NoIter
    /\ item = NoItem
    /\ emitted = <<>>
    /\ calls = 0
    /\ FnIdle
    /\ ProductIdle
    /\ SectIdle

\* Grib2RecordIterBuilder::build of grib2/reader.rs
Grib2Build ==
    /\ phase = "grib2_builder"
    /\ LET built(r) ==
              /\ phase' = CASE r.status = "ok" -> "iterating"
                            [] r.status = "err" -> "build_err"
                            [] OTHER -> "aborted"
              /\ iter' = r.iter
              /\ reader' = r.reader
              /\ item' = CASE r.status = "err" -> ErrItem("RuntimeError", 0, 0)
                           [] r.status = "panic" -> PanicItem
                           [] OTHER -> NoItem
       IN built(grib2_build(builder, reader, overflow_checks))
    /\ UNCHANGED <<overflow_checks, builder, emitted, calls, fn_vars, product_vars, sect_vars>>

NextBuild == Build \/ Grib2Build \/ CallNext

SpecBuild == InitBuild /\ [][NextBuild]_vars

----------------------------------------------------------------------------
(* read_i16 and read_i32 (readers/utils.rs) called on their own *)

\* the longest source the functions are called on
MaxIntLen == 4

\* octets with the sign bit clear and set, at both ends of the range
IntBytes == {0, 1, 127, 128, 129, 255}

\* std::mem::size_of::<$type>()
size_of(name) == IF name = "read_i16" THEN 2 ELSE 4

\* the calls: either function on a source of up to MaxIntLen octets
IntCalls ==
    {[name |-> name, source |-> source] :
        name \in {"read_i16", "read_i32"}, source \in SeqsUpTo(IntBytes, MaxIntLen)}

InitInt ==
    /\ IterIdle
    /\ SectIdle
    /\ ProductIdle
    /\ call \in IntCalls
    /\ ret = NoRet

\* read_i16(reader, name) or read_i32(reader, name) on a reader at the start
\* of the source
ReadInt ==
    /\ ~ret.done
    /\ ret' = [done |-> TRUE, r |-> read_int(call.source, 0, size_of(call.name))]
    /\ UNCHANGED <<call, iter_vars, sect_vars, product_vars>>

NextInt == ReadInt

SpecInt == InitInt /\ [][NextInt]_vars

----------------------------------------------------------------------------
(* Readers of several forecast blocks: LwjmReader (src/readers/lwjm.rs)    *)
(* and FPswReader (src/readers/fpsw.rs).  A block is the sections 4 to 7   *)
(* of one forecast hour (and tank); the methods that take an hour index    *)
(* the blocks loaded when the file was opened.                             *)

\* the most forecast blocks a file of the model holds beyond the 18 of a
\* six-hour FPsw file
MaxExtraBlocks == 2

\* the n-th block of a file: what record_iter takes from its sections 5 and 7
ForecastBlock(n) ==
    [block |-> n, bits_per_value |-> 4, max_level_value |-> 10,
     level_values |-> <<5, 7, 9>>, run_length_position |-> 100 * n,
     run_length_bytes |-> 2]

\* a file that holds n blocks between its section 3 and its section 8
ProductFile(n) == [i \in 1..n |-> ForecastBlock(i)]

\* v[i] of a Vec or an array, i counted from 0: an index out of range panics
index(v, i) ==
    IF 0 <= i /\ i < Len(v) THEN [status |-> "ok", value |-> v[i + 1]]
    ELSE [status |-> "panic", value |-> <<>>]

\* LwjmReader::new: one LwjmJudgment::from_reader for a file of the live
\* judgment, four for a file with the forecasts, then Section8::from_reader.
\* A block the file does not hold, or a further block where section 8 is
\* expected, is an error of the decoder that meets it.
LwjmReader_new(blocks, has_forecast) ==
    LET wanted == IF has_forecast THEN 4 ELSE 1 IN
    IF Len(blocks) # wanted
    THEN [kind |-> "LwjmReader", stage |-> "failed", has_forecast |-> has_forecast,
          file |-> blocks, judgments |-> <<>>]
    ELSE [kind |-> "LwjmReader", stage |-> "opened", has_forecast |-> has_forecast,
          file |-> blocks, judgments |-> SubSeq(blocks, 1, wanted)]

\* the fpsw_sections of FPswReader::new: for each hour of the range an array
\* of the three tanks' blocks
RECURSIVE hours_of(_, _)
hours_of(blocks, hours) ==
    IF hours = 0 THEN <<>>
    ELSE Append(hours_of(blocks, hours - 1), SubSeq(blocks, 3 * hours - 2, 3 * hours))

\* FPswReader::new: three PswSections::from_reader for each hour of
\* forecast_range, then Section8::from_reader.  (The tank_values loaded
\* after that are not read by fpsw_sections.)
FPswReader_new(blocks, forecast_range) ==
    IF Len(blocks) # 3 * forecast_range
    THEN [kind |-> "FPswReader", stage |-> "failed", forecast_range |-> forecast_range,
          file |-> blocks, fpsw_sections |-> <<>>]
    ELSE [kind |-> "FPswReader", stage |-> "opened", forecast_range |-> forecast_range,
          file |-> blocks, fpsw_sections |-> hours_of(blocks, forecast_range)]

\* LwjmHour as u8: Live = 0, Hour1 = 1, Hour2 = 2, Hour3 = 3
LwjmHour == 0..3
Live == 0
\* ForecastHour as u8 and PswTank as u8
ForecastHour == 1..6
PswTank == 0..2

\* ForecastRange::contains
contains(forecast_range, hour) ==
    IF forecast_range = 6 THEN TRUE ELSE hour \in {1, 2, 3}

\* judgment without the test of has_forecast
LwjmReader_judgment_unguarded(r, hour) == index(r.judgments, hour)

\* LwjmReader::judgment
LwjmReader_judgment(r, hour) ==
    IF hour # Live /\ ~r.has_forecast
    THEN [status |-> "RuntimeError", value |-> <<>>]
    ELSE index(r.judgments, hour)

\* the builder LwjmReader::record_iter fills from section 3 (the grid p) and
\* the judgment
lwjm_builder(p, judgment) ==
    [reader |-> Some(TRUE), total_bytes |-> Some(judgment.run_length_bytes),
     number_of_points |-> Some(p.number_of_points), lat_max |-> Some(p.lat_max),
     lon_min |-> Some(p.lon_min), lon_max |-> Some(p.lon_max),
     lat_inc |-> Some(p.lat_inc), lon_inc |-> Some(p.lon_inc),
     nbit |-> Some(judgment.bits_per_value),
     maxv |-> Some(judgment.max_level_value),
     level_values |-> Some(judgment.level_values)]

\* LwjmReader::record_iter: the same test, the judgment, a reader of the file
\* moved to the judgment's run_length_position, the iterator built on it
LwjmReader_record_iter(r, hour, checks) ==
    LET judgment == index(r.judgments, hour)
        built(b) ==
            [status |-> CASE b.status = "ok" -> "ok"
                          [] b.status = "err" -> "RuntimeError"
                          [] OTHER -> "panic",
             value |-> [iter |-> b.iter,
                        reader |-> seek([data |-> <<>>, pos |-> 0],
                                        judgment.value.run_length_position)]]
    IN IF hour # Live /\ ~r.has_forecast
       THEN [status |-> "RuntimeError", value |-> <<>>]
       ELSE IF judgment.status # "ok" THEN judgment
       ELSE built(build(lwjm_builder(ParamsA, judgment.value), checks))

\* FPswReader::fpsw_sections
FPswReader_fpsw_sections(r, hour, tank) ==
    LET tanks == index(r.fpsw_sections, hour - 1) IN
    IF ~contains(r.forecast_range, hour)
    THEN [status |-> "RuntimeError", value |-> <<>>]
    ELSE IF tanks.status # "ok" THEN tanks
    ELSE index(tanks.value, tank)

\* a file about to be opened as a LwjmReader or as a FPswReader
InitQuery ==
    /\ IterIdle
    /\ SectIdle
    /\ call = NoCall
    /\ ret = NoRet
    /\ prep_iter = NoPrepIter
    /\ \/ \E has_forecast \in BOOLEAN, n \in 0..(4 + MaxExtraBlocks) :
            product = [kind |-> "LwjmReader", stage |-> "new",
                       has_forecast |-> has_forecast, file |-> ProductFile(n),
                       judgments |-> <<>>]
       \/ \E forecast_range \in {3, 6}, n \in 0..(18 + MaxExtraBlocks) :
            product = [kind |-> "FPswReader", stage |-> "new",
                       forecast_range |-> forecast_range, file |-> ProductFile(n),
                       fpsw_sections |-> <<>>]

\* LwjmReader::new(path, has_forecast)
LwjmNew ==
    /\ product.kind = "LwjmReader"
    /\ product.stage = "new"
    /\ product' = LwjmReader_new(product.file, product.has_forecast)
    /\ UNCHANGED <<prep_iter, fn_vars, iter_vars, sect_vars>>

\* FPswReader::new(path, forecast_range)
FPswNew ==
    /\ product.kind = "FPswReader"
    /\ product.stage = "new"
    /\ product' = FPswReader_new(product.file, product.forecast_range)
    /\ UNCHANGED <<prep_iter, fn_vars, iter_vars, sect_vars>>

\* reader.judgment(hour)
Judgment ==
    /\ product.kind = "LwjmReader"
    /\ product.stage = "opened"
    /\ \E hour \in LwjmHour :
        /\ call' = [fn |-> "judgment", hour |-> hour, tank |-> 0]
        /\ ret' = [done |-> TRUE, r |-> LwjmReader_judgment(product, hour)]
    /\ UNCHANGED <<product_vars, iter_vars, sect_vars>>

\* reader.record_iter(hour)
LwjmRecordIter ==
    /\ product.kind = "LwjmReader"
    /\ product.stage = "opened"
    /\ \E hour \in LwjmHour :
        /\ call' = [fn |-> "record_iter", hour |-> hour, tank |-> 0]
        /\ ret' = [done |-> TRUE,
                   r |-> LwjmReader_record_iter(product, hour, overflow_checks)]
    /\ UNCHANGED <<product_vars, iter_vars, sect_vars>>

\* reader.fpsw_sections(hour, tank)
FpswSections ==
    /\ product.kind = "FPswReader"
    /\ product.stage = "opened"
    /\ \E hour \in ForecastHour, tank \in PswTank :
        /\ call' = [fn |-> "fpsw_sections", hour |-> hour, tank |-> tank]
        /\ ret' = [done |-> TRUE, r |-> FPswReader_fpsw_sections(product, hour, tank)]
    /\ UNCHANGED <<product_vars, iter_vars, sect_vars>>

NextQuery == LwjmNew \/ FPswNew \/ Judgment \/ LwjmRecordIter \/ FpswSections

SpecQuery == InitQuery /\ [][NextQuery]_vars

----------------------------------------------------------------------------
(* The iterator on sets whose repeat count is near 2^32 *)

\* 2 columns by 1 row at latitude 10; nbit = 8, maxv = 1, so lngu = 254
ParamsF == [number_of_points |-> 2, lat_max |-> 10, lon_min |-> 100, lon_max |-> 110,
            lat_inc |-> 10, lon_inc |-> 10, nbit |-> 8, maxv |-> 1,
            level_values |-> <<5, 7, 9>>]

\* a set of level 0 whose digits stand for
\* e + 32 * 254 + 24 * 254^2 + 8 * 254^3 + 254^4 = 2^32 - 16 + e
LongSet(e) == <<0, e + 2, 34, 26, 10, 3>>

\* the set alone, or followed by a set of level 1 and a set of level 0
LongPayloads == {LongSet(e) \o rest : e \in {14, 15, 16, 17}, rest \in {<<>>, <<1, 0>>}}

InitLong ==
    /\ overflow_checks \in BOOLEAN
    /\ phase = "builder"
    /\ \E payload \in LongPayloads :
          /\ builder = FullBuilder(ParamsF, payload)
          /\ \E d \in Sources(payload) : reader = [data |-> d, pos |-> 0]
    /\ iter = NoIter
    /\ item = NoItem
    /\ emitted = <<>>
    /\ calls = 0
    /\ FnIdle
    /\ ProductIdle
    /\ SectIdle

SpecLong == InitLong /\ [][Next]_vars

----------------------------------------------------------------------------
(* FPrrReader::prep_iter and FPrrPrepIterator (src/readers/fprr.rs): the   *)
(* six forecast blocks of an opened file, read side by side                *)

\* the coordinates of the 2 by 1 grid of ParamsA, in raster order
GridCoordinates == <<[lat |-> 10, lon |-> 100], [lat |-> 10, lon |-> 110]>>

\* what read_precipitation can return for the N-th block: a map from the
\* coordinates of the records its iterator returned to their values; a
\* value is None for level 0; a stream that ends early leaves the last
\* coordinate out
PrecipitationMaps(N) ==
    {[c \in {GridCoordinates[1], GridCoordinates[2]} |->
         IF c = GridCoordinates[1] THEN Some(10 * N) ELSE Some(10 * N + 1)],
     [c \in {GridCoordinates[1], GridCoordinates[2]} |->
         IF c = GridCoordinates[1] THEN Some(10 * N) ELSE None],
     [c \in {GridCoordinates[1]} |-> Some(10 * N)]}

\* Coordinate::cmp: by latitude, then by longitude
coordinate_lt(a, b) == a.lat < b.lat \/ (a.lat = b.lat /\ a.lon < b.lon)

\* precipitations[0].keys() collected and sorted
sorted_keys(map) ==
    CHOOSE s \in [1..Cardinality(DOMAIN map) -> DOMAIN map] :
        \A i, j \in 1..Cardinality(DOMAIN map) : i < j => coordinate_lt(s[i], s[j])

\* HashMap::get
get(map, key) == IF key \in DOMAIN map THEN Some(map[key]) ELSE None

\* FPrrPrepIterator::next: [it, item]; get(..).unwrap() panics for a
\* coordinate the block's map does not hold
NoPrep == [kind |-> "none", lat |-> 0, lon |-> 0, hour1 |-> None, hour2 |-> None,
           hour3 |-> None, hour4 |-> None, hour5 |-> None, hour6 |-> None]

prep_next(it) ==
    LET coordinate == it.coordinates[it.index + 1]
        hour1 == get(it.precipitations[1], coordinate)
        hour2 == get(it.precipitations[2], coordinate)
        hour3 == get(it.precipitations[3], coordinate)
        hour4 == get(it.precipitations[4], coordinate)
        hour5 == get(it.precipitations[5], coordinate)
        hour6 == get(it.precipitations[5], coordinate)
    IN IF ~(it.index < Len(it.coordinates)) THEN [it |-> it, item |-> NoPrep]
       ELSE IF \E h \in {hour1, hour2, hour3, hour4, hour5, hour6} : ~is_some(h)
       THEN [it |-> it, item |-> [NoPrep EXCEPT !.kind = "panic"]]
       ELSE [it |-> [it EXCEPT !.index = @ + 1],
             item |-> [kind |-> "some", lat |-> coordinate.lat, lon |-> coordinate.lon,
                       hour1 |-> unwrap(hour1), hour2 |-> unwrap(hour2),
                       hour3 |-> unwrap(hour3), hour4 |-> unwrap(hour4),
                       hour5 |-> unwrap(hour5), hour6 |-> unwrap(hour6)]]

\* an opened FPrrReader: the six maps and the sorted coordinates of the first
InitPrep ==
    /\ IterIdle
    /\ SectIdle
    /\ call = NoCall
    /\ ret = [done |-> FALSE, r |-> NoPrep]
    /\ prep_iter = NoPrepIter
    /\ \E m1 \in PrecipitationMaps(1), m2 \in PrecipitationMaps(2),
          m3 \in PrecipitationMaps(3), m4 \in PrecipitationMaps(4),
          m5 \in PrecipitationMaps(5), m6 \in PrecipitationMaps(6) :
          product = [kind |-> "FPrrReader", stage |-> "opened",
                     coordinates |-> sorted_keys(m1),
                     precipitations |-> <<m1, m2, m3, m4, m5, m6>>]

\* reader.prep_iter()
PrepIter ==
    /\ product.kind = "FPrrReader"
    /\ prep_iter = NoPrepIter
    /\ prep_iter' = [index |-> 0, coordinates |-> product.coordinates,
                     precipitations |-> product.precipitations]
    /\ UNCHANGED <<product, fn_vars, iter_vars, sect_vars>>

\* one call of FPrrPrepIterator::next
PrepNext ==
    /\ prep_iter # NoPrepIter
    /\ ret.r.kind # "panic"
    /\ LET r == prep_next(prep_iter) IN
       /\ prep_iter' = r.it
       /\ ret' = [done |-> TRUE, r |-> r.item]
    /\ UNCHANGED <<product, call, iter_vars, sect_vars>>

NextPrep == PrepIter \/ PrepNext

SpecPrep == InitPrep /\ [][NextPrep]_vars

----------------------------------------------------------------------------
(* The run-length code as the format defines it, for stating the claims *)

\* d_1 - (maxv+1) + lngu * (d_2 - (maxv+1) + lngu * (...)), by Horner's rule
RECURSIVE Horner(_, _, _)
Horner(digits, maxv, lngu) ==
    IF digits = <<>> THEN 0
    ELSE (Head(digits) - (maxv + 1)) + lngu * Horner(Tail(digits), maxv, lngu)

RepeatCount(digits, maxv, lngu) == 1 + Horner(digits, maxv, lngu)

\* the index after the set that starts at index i: the next byte <= maxv
RECURSIVE SetEnd(_, _, _)
SetEnd(p, j, maxv) ==
    IF j > Len(p) \/ p[j] <= maxv THEN j ELSE SetEnd(p, j + 1, maxv)

\* the number of grid points the sets of p from index i on stand for
RECURSIVE TotalCount(_, _, _, _)
TotalCount(p, i, maxv, lngu) ==
    IF i > Len(p) THEN 0
    ELSE LET j == SetEnd(p, i + 1, maxv) IN
         RepeatCount(SubSeq(p, i + 1, j - 1), maxv, lngu)
         + TotalCount(p, j, maxv, lngu)

Built == phase \in {"iterating", "aborted"} /\ iter # NoIter

\* the source holds every byte of the payload
FullSource == Len(reader.data) >= iter.total_bytes
Payload == SubSeq(reader.data, 1, iter.total_bytes)

\* a concatenation of well-formed sets whose repeat counts sum to number_of_points
ValidStream ==
    /\ Built
    /\ FullSource
    /\ (Payload = <<>> \/ Payload[1] <= iter.maxv)
    /\ TotalCount(Payload, 1, iter.maxv, iter.lngu) = iter.number_of_points

Levels(records) == [i \in 1..Len(records) |-> records[i].level]

\* the u32 written x (a negative x is the wrapped value 2^32 + x) is the integer n
u32_is(x, n) == x >= 0 /\ x = n

----------------------------------------------------------------------------
(* Claims *)

C2_ValidStreamYieldsEveryPoint ==
    ValidStream =>
        /\ item.kind \notin {"error", "panic"}
        /\ Len(emitted) <= iter.number_of_points
        /\ (item.kind = "end" => Len(emitted) = iter.number_of_points)
        /\ (calls > iter.number_of_points => item.kind = "end")

IsExampleRun ==
    /\ Built
    /\ builder = FullBuilder(ParamsE, ExamplePayload)
    /\ reader.data = ExamplePayload \o End7777

ExampleLevels == <<3, 9, 9, 6, 4, 4, 4, 4, 4, 2, 1, 0>>

\* C3: with nbit = 4, maxv = 10, a grid of 4 columns by 3 rows and the stream
\* [3,9,12,6,4,15,2,1,0] the iterator produces exactly 12 records with the
\* levels [3,9,9,6,4,4,4,4,4,2,1,0] and then end-of-sequence.
C3_EndToEndExample ==
    IsExampleRun =>
        /\ (calls <= 12 => /\ Len(emitted) = calls
                           /\ Levels(emitted) = SubSeq(ExampleLevels, 1, calls))
        /\ (calls > 12 => /\ Levels(emitted) = ExampleLevels
                          /\ item.kind = "end")

Columns == (iter.lon_max - iter.lon_min) \div iter.lon_inc + 1

\* C4: the K-th record emitted (K from 0) has the coordinate
\* (lat_max - (K div W) * lat_inc, lon_min + (K mod W) * lon_inc), with
\* W = (lon_max - lon_min) div lon_inc + 1, for every K below the number of
\* records emitted.
C4_RasterOrder ==
    Built =>
        \A K \in 0..(Len(emitted) - 1) :
            /\ u32_is(emitted[K + 1].lat,
                      unwrap(builder.lat_max) - (K \div Columns) * iter.lat_inc)
            /\ u32_is(emitted[K + 1].lon,
                      iter.lon_min + (K % Columns) * iter.lon_inc)

\* C5: every record emitted has value = None if and only if its level is 0, and
\* a record with level L in 1..count has value = level_values[L-1].
C5_ValueOfLevel ==
    \A i \in 1..Len(emitted) :
        LET r == emitted[i] IN
        /\ (r.value = None <=> r.level = 0)
        /\ (r.level \in 1..Len(iter.level_values)
                => r.value = Some(iter.level_values[r.level]))

C5_Witness ==
    \E i, j \in 1..Len(emitted) :
        /\ emitted[i].level = 0 /\ emitted[i].value = None
        /\ emitted[j].level = 3 /\ emitted[j].value = Some(9)

\* C6: a next() call made with returning_times = 0 and all total_bytes bytes
\* consumed returns end-of-sequence if and only if number_of_reads =
\* number_of_points, and otherwise an internal-consistency error item that
\* reports the number of points read and the declared number of points.
C6_EndOrMismatch ==
    [][(/\ phase = "iterating"
        /\ calls' = calls + 1
        /\ iter.returning_times = 0
        /\ iter.total_bytes <= iter.read_bytes)
       => /\ (item'.kind = "end" <=> iter.number_of_reads = iter.number_of_points)
          /\ (iter.number_of_reads # iter.number_of_points
                => item' = ErrItem("Unexpected", iter.number_of_reads,
                                   iter.number_of_points))]_vars

C6_Witness ==
    /\ item.kind = "error" /\ item.err = "Unexpected"
    /\ item.reads = iter.number_of_reads /\ item.points = iter.number_of_points
    /\ item.reads > item.points
    /\ at_end(iter)

\* C7: the iterator never returns more records than declared: the count of
\* records emitted so far is at most number_of_points in every reachable state.
C7_NeverMoreThanDeclared ==
    Built => Len(emitted) <= iter.number_of_points

\* C8: an error item is terminal: once next() has returned an error item the
\* following call returns end-of-sequence.
C8_ErrorIsTerminal ==
    [][(item.kind = "error" /\ calls' = calls + 1) => item'.kind = "end"]_vars

\* C9: build() and every next() call return a value and never abort.
C9_NeverPanics == item.kind # "panic"

\* C10: a typed section decoder rejects a foreign template id: whenever
\* Section3<Template3_0>, Section4<Template4_0> or Section5<Template5_200u16>
\* has been decoded, the template number read from the stream is the id of
\* the template whose layout was used (3.0, 4.0, 5.200).
C10_TypedDecodersRejectForeignTemplate ==
    /\ is_some(section3) => unwrap(section3).grid_definition_template_number = 0
    /\ is_some(section4) => unwrap(section4).product_definition_template_number = 0
    /\ is_some(section5) => unwrap(section5).data_representation_template_number = 200

----------------------------------------------------------------------------
(* Opening a file: what the claims say of the section decoders *)

\* the big-endian u16 in octets p+1 and p+2 of the file
u16_at(p) == file[p + 1] * 256 + file[p + 2]

\* the section at the cursor holds at least its first n octets and carries
\* section number `number`
HeadReadable(n, number) == pos + n <= Len(file) /\ file[pos + 5] = number

\* the decode step failed with NotImplemented naming tn, the cursor right
\* after the n octets of the section's head
RejectedTemplate(n, tn) ==
    /\ failure' = Some([kind |-> "NotImplemented", detail |-> <<tn>>])
    /\ pos' = pos + n
    /\ stage' = "failed"

\* C11: in the enum-dispatch reader (Grib2Reader), a section 3, 4 or 5 whose
\* head is readable and whose template number is outside the implemented set
\* (3: {0}; 4: {0, 50000, 50008, 50009}; 5: {200}) makes from_reader return
\* NotImplemented naming that number, the cursor standing right after the
\* template number (no template field read), and no section value is kept.
C11_NotImplementedNamesTemplate ==
    [][kind = "Grib2Reader" =>
        /\ (DecodeSection3 /\ HeadReadable(14, 3) /\ u16_at(pos + 12) \notin {0})
              => RejectedTemplate(14, u16_at(pos + 12)) /\ section3' = None
        /\ (DecodeSection4 /\ HeadReadable(9, 4)
               /\ u16_at(pos + 7) \notin {0, 50000, 50008, 50009})
              => RejectedTemplate(9, u16_at(pos + 7)) /\ section4' = None
        /\ (DecodeSection5 /\ HeadReadable(11, 5) /\ u16_at(pos + 9) \notin {200})
              => RejectedTemplate(11, u16_at(pos + 9)) /\ section5' = None]_vars

\* a section 4 with product definition template 1 has been rejected
C11_Witness ==
    /\ kind = "Grib2Reader"
    /\ stage = "failed"
    /\ is_some(section3) /\ section4 = None
    /\ failure = Some([kind |-> "NotImplemented", detail |-> <<1>>])
    /\ u16_at(pos - 2) = 1

\* C12: the materializing readers do not swallow iterator errors: when the
\* iterator returns an error item while a forecast block is loaded, the
\* function returns that error to the open (which fails with it) and no Ok
\* collection.
C12_ErrorItemFailsTheOpen ==
    [][(phase = "flatten" /\ item'.kind = "error")
          => is_some(loaded') /\ unwrap(loaded').status = "Err"]_vars

\* the four octets at the cursor
MarkerAtCursor == SubSeq(file, pos + 1, pos + 4)

\* C13: section 8 decodes iff the four octets at the cursor are ASCII "7777";
\* any other four octets make from_reader return the malformed-input error
\* (Unexpected) that reports the expected marker and the octets read.
C13_Section8Marker ==
    [][(DecodeSection8 /\ pos + 4 <= Len(file))
          => /\ is_some(section8') <=> MarkerAtCursor = <<55, 55, 55, 55>>
             /\ stage' = "opened" <=> MarkerAtCursor = <<55, 55, 55, 55>>
             /\ MarkerAtCursor # <<55, 55, 55, 55>>
                   => failure' = Some([kind |-> "Unexpected",
                                       detail |-> <<<<55, 55, 55, 55>>, MarkerAtCursor>>])]_vars

\* four octets that are not the marker were read where section 8 starts
C13_Witness ==
    /\ stage = "failed"
    /\ is_some(section7) /\ section8 = None
    /\ pos >= 4
    /\ is_some(failure) /\ unwrap(failure).kind = "Unexpected"
    /\ unwrap(failure).detail = <<<<55, 55, 55, 55>>, SubSeq(file, pos - 3, pos)>>
    /\ SubSeq(file, pos - 3, pos) # <<55, 55, 55, 55>>

\* the section at the cursor holds its length and its number, and the number
\* is not `number`
ForeignNumber(number) == pos + 5 <= Len(file) /\ file[pos + 5] # number

\* the decode step read the five octets of the section's start and nothing
\* more, and failed with Unexpected reporting the number read and `number`
RejectedNumber(number) ==
    /\ failure' = Some([kind |-> "Unexpected", detail |-> <<file[pos + 5], number>>])
    /\ pos' = pos + 5
    /\ stage' = "failed"

\* the decoder of the section at the cursor checks the section's length
\* before it reads the section number, and the length is not the one it wants
LengthRefused ==
    /\ kind = "PrrReader"
    /\ \/ stage = "section1" /\ from_be_bytes(SubSeq(file, pos + 1, pos + 4)) # 21
       \/ stage = "section6" /\ from_be_bytes(SubSeq(file, pos + 1, pos + 4)) # 6

\* a decode step of section 1, 3, 4, 5, 6 or 7 rejects a foreign number, in
\* every state where `unless` does not hold
NumberValidated(unless) ==
    ~unless =>
        /\ (DecodeSection1 /\ ForeignNumber(1)) => RejectedNumber(1) /\ section1' = None
        /\ (DecodeSection3 /\ ForeignNumber(3)) => RejectedNumber(3) /\ section3' = None
        /\ (DecodeSection4 /\ ForeignNumber(4)) => RejectedNumber(4) /\ section4' = None
        /\ (DecodeSection5 /\ ForeignNumber(5)) => RejectedNumber(5) /\ section5' = None
        /\ (DecodeSection6 /\ ForeignNumber(6)) => RejectedNumber(6) /\ section6' = None
        /\ (DecodeSection7 /\ ForeignNumber(7)) => RejectedNumber(7) /\ section7' = None

\* C14 (as stated): every decoder of sections 1, 3, 4, 5, 6 and 7 reads the
\* 4-byte length and then the 1-byte section number, and whenever that byte
\* is not the section's ordinal it fails with Unexpected reporting the byte
\* and the ordinal, no field after the section number being read.
C14_SectionNumberValidated == [][NumberValidated(FALSE)]_vars

\* C14 (amended): the same, for every decoder that has accepted the length:
\* the Section1 and Section6 of the product readers compare the length with
\* SECTION1_BYTES and SECTION6_BYTES first, and on a mismatch fail there,
\* before the section number is read.
C14_SectionNumberValidatedAfterLength == [][NumberValidated(LengthRefused)]_vars

\* section 3 carried the number 4 and was rejected
C14_Witness ==
    /\ stage = "failed"
    /\ is_some(section2) /\ section3 = None
    /\ pos >= 5 /\ pos <= Len(file)
    /\ file[pos] = 4
    /\ failure = Some([kind |-> "Unexpected", detail |-> <<4, 3>>])

\* the sections of the reader being opened, section i at index i + 1
Sections ==
    <<section0, section1, section2, section3, section4, section5, section6,
      section7, section8>>

\* how many sections have been decoded
NumberDecoded == Cardinality({i \in 1..9 : is_some(Sections[i])})

\* the stages of an open, in the order they are passed
StageOrder ==
    <<"section0", "section1", "section2", "section3", "section4", "section5",
      "section6", "section7", "section8", "opened">>

\* C15: Grib2Reader::new and PrrReader::new decode the sections in the order
\* 0, 1, .., 8: the sections decoded so far are always exactly those before
\* the one that is next; section 2 consumes no byte; a decode that fails
\* makes the open return that error at once: the error is kept, no section
\* is decoded and no byte is read after it, and the reader value exists
\* (stage "opened", from which record_iter can be called) only when all nine
\* sections were decoded without an error.
C15_OpenInOrderFirstErrorReturned ==
    [][/\ \A i \in 1..10 :
             stage' = StageOrder[i]
                => /\ \A j \in 1..9 : is_some(Sections[j]') <=> j < i
                   /\ failure' = None
       /\ DecodeSection2 => pos' = pos /\ stage' = "section3"
       /\ stage' = "failed"
             => /\ is_some(failure')
                /\ NumberDecoded' < 9
                /\ \A j \in 1..9 : is_some(Sections[j]') <=> j <= NumberDecoded'
                /\ iterators' = <<>> /\ phase' = "idle"
       /\ stage \in {"failed", "aborted"}
             => UNCHANGED <<pos, failure, Sections, stage>>
       /\ (stage \in {StageOrder[i] : i \in 1..9} /\ stage' # stage)
             => /\ NumberDecoded' = NumberDecoded + 1 <=> failure' = None /\ stage' # "aborted"
                /\ NumberDecoded' = NumberDecoded <=> stage' \in {"failed", "aborted"}
       /\ iterators' # <<>> => stage = "opened" /\ NumberDecoded = 9 /\ failure = None]_vars

\* an open failed at section 5 with octets of the file left unread: sections
\* 0 to 4 are decoded, sections 6 to 8 are not
C15_Witness ==
    /\ stage = "failed"
    /\ is_some(failure)
    /\ NumberDecoded = 5 /\ is_some(section4) /\ section5 = None
    /\ pos + 10 < Len(file)

\* the length the section at the cursor declares
LengthAtCursor == from_be_bytes(SubSeq(file, pos + 1, pos + 4))

\* C16: decoding section 7 (template 7.200) of a file that holds the
\* section's five header octets with section number 7 records
\* run_length_position as the position right after the header, sets
\* run_length_bytes = section_bytes - 5 and skips that many octets, so that
\* the position afterwards is the section's start plus section_bytes.
C16_Section7SkipsRunLength ==
    [][(DecodeSection7 /\ pos + 5 <= Len(file) /\ file[pos + 5] = 7)
          => /\ is_some(section7')
             /\ unwrap(section7').run_length_position = pos + 5
             /\ unwrap(section7').run_length_bytes = LengthAtCursor - 5
             /\ unwrap(section7').run_length_bytes >= 0
             /\ pos' = pos + LengthAtCursor]_vars

\* count = (section_bytes - 10 - 6) / 2 for the section at the cursor
LevelCount == (LengthAtCursor - 10 - 6) \div 2

\* the i-th two-byte value of the level table of the section at the cursor,
\* as the reader being opened keeps it (Grib2Reader: the two octets;
\* PrrReader: the u16 they encode)
LevelValueAt(i) ==
    IF kind = "Grib2Reader"
    THEN SubSeq(file, pos + 16 + 2 * i, pos + 17 + 2 * i)
    ELSE u16_at(pos + 15 + 2 * i)

\* template 5.200 is decoded for the section at the cursor: the section's
\* head is readable, and the file holds the template's six octets and the
\* count level values after it
Template5_200Entered ==
    /\ HeadReadable(11, 5)
    /\ kind = "Grib2Reader" => u16_at(pos + 9) = 200
    /\ pos + 17 + 2 * LevelCount <= Len(file)
    /\ pos + 17 <= Len(file)

\* C17: template 5.200 decoding reads bits_per_value, max_level_value,
\* number_of_level_values and decimal_scale_factor and then exactly
\* count = (section_bytes - 10 - 6) / 2 two-byte level values, stored in
\* stream order (the value of level L at index L - 1 counted from 0, which is
\* the L-th element), the cursor ending right after the last of them.
C17_Template5_200LevelTable ==
    [][(DecodeSection5 /\ Template5_200Entered)
          => /\ is_some(section5')
             /\ LET t == unwrap(section5').template5 IN
                /\ t.bits_per_value = file[pos + 12]
                /\ t.max_level_value = u16_at(pos + 12)
                /\ t.number_of_level_values = u16_at(pos + 14)
                /\ t.decimal_scale_factor = file[pos + 17]
                /\ Len(t.level_values) = LevelCount
                /\ \A L \in 1..LevelCount : t.level_values[L] = LevelValueAt(L)
             /\ pos' = pos + 17 + 2 * LevelCount]_vars

\* a setter of the builder was never called
SomeFieldUnset == \E f \in DOMAIN builder : builder[f] = None

\* C18: build() called on a builder with a required parameter unset (the
\* builder of readers/records.rs or the one of grib2/reader.rs) returns the
\* configuration error (RuntimeError) and no iterator, before any byte is
\* read from the source and before any seek on it: the reader is where it was.
C18_BuildFailsFast ==
    [][(phase \in {"builder", "grib2_builder"} /\ phase' # phase /\ SomeFieldUnset)
          => /\ phase' = "build_err"
             /\ item' = ErrItem("RuntimeError", 0, 0)
             /\ iter' = NoIter
             /\ reader' = reader]_vars

\* build() of grib2/reader.rs has refused a builder whose run_length_position
\* is set and whose level_values alone are not, the reader still at the end
\* of the file
C18_Witness ==
    /\ phase = "build_err"
    /\ item = ErrItem("RuntimeError", 0, 0)
    /\ "run_length_position" \in DOMAIN builder
    /\ \A f \in DOMAIN builder : builder[f] = None <=> f = "level_values"
    /\ reader.pos = Len(reader.data) /\ reader.pos # unwrap(builder.run_length_position)

\* the iterator record_iter makes on a reader that has just been opened
FreshIterator ==
    [iter |-> build(record_iter_builder, overflow_checks).iter,
     reader |-> [data |-> file, pos |-> unwrap(section7).run_length_position]]

\* what n calls of next() on the fresh iterator give: the iterator after
\* them, the records returned, and the item the last call returned
RECURSIVE Replayed(_)
Replayed(n) ==
    LET step(prev, r) ==
            [s |-> r.s,
             records |-> IF r.item.kind = "record"
                         THEN Append(prev.records, Grib2Record(r.item))
                         ELSE prev.records,
             item |-> r.item]
        again(prev) == step(prev, next_item(prev.s, overflow_checks))
    IN IF n = 0 THEN [s |-> FreshIterator, records |-> <<>>, item |-> NoItem]
       ELSE again(Replayed(n - 1))

\* the iterator in use, compared with the replay of its calls
AsReplayed(r) ==
    /\ emitted = r.records
    /\ iter = r.s.iter
    /\ reader = r.s.reader
    /\ calls > 0 => item = r.item

\* C19: every record iterator made by record_iter (Grib2Reader, PrrReader)
\* starts at run_length_position with a fresh cursor: after any number of
\* next() calls, the iterator in use, whether the first one or one made after
\* an earlier iterator was abandoned, has returned exactly the records the
\* same calls return on the first iterator of a freshly opened reader.
C19_NewIteratorStartsFromScratch ==
    (stage = "opened" /\ iterators # <<>> /\ phase \in {"iterating", "aborted"})
        => AsReplayed(Replayed(calls))

\* the second iterator has returned records, the first having been dropped
\* with the reader inside the run-length octets
C19_Witness ==
    /\ stage = "opened" /\ phase = "iterating"
    /\ Len(iterators) = 2
    /\ iterators[2] > unwrap(section7).run_length_position
    /\ iterators[2] < unwrap(section7).run_length_position
                         + unwrap(section7).run_length_bytes
    /\ calls >= 2
    /\ Len(emitted) >= 2

----------------------------------------------------------------------------
(* Sign-magnitude integers, for stating the claim *)

\* b1 * 256^(n-1) + ... + bn for the octets b1..bn
RECURSIVE BigEndian(_)
BigEndian(octets) ==
    IF octets = <<>> THEN 0
    ELSE Head(octets) * 256 ^ (Len(octets) - 1) + BigEndian(Tail(octets))

\* s * ((b0 mod 128) * 256^(n-1) + b1 * 256^(n-2) + ... + b(n-1))
SignMagnitude(octets) ==
    (IF Head(octets) >= 128 THEN -1 ELSE 1)
    * BigEndian(<<Head(octets) % 128>> \o Tail(octets))

\* C20: read_i16 and read_i32 decode sign-magnitude: for a source that holds
\* the n = 2 or 4 octets b0..b(n-1), the result is
\* s * ((b0 mod 128) * 256^(n-1) + ... + b(n-1)) with s = -1 when the top bit
\* of b0 is set and +1 otherwise, and n octets are consumed; read_i16 gives 0
\* for 0x80 0x00 and -32767 for 0xFF 0xFF.
C20_SignMagnitude ==
    (ret.done /\ call.name \in {"read_i16", "read_i32"}
              /\ Len(call.source) >= size_of(call.name))
        => /\ ret.r.ok
           /\ ret.r.pos = size_of(call.name)
           /\ ret.r.value = SignMagnitude(SubSeq(call.source, 1, size_of(call.name)))
           /\ (call.name = "read_i16" /\ SubSeq(call.source, 1, 2) = <<128, 0>>)
                 => ret.r.value = 0
           /\ (call.name = "read_i16" /\ SubSeq(call.source, 1, 2) = <<255, 255>>)
                 => ret.r.value = -32767

\* read_i16 has returned -32767 for the octets 0xFF 0xFF
C20_Witness ==
    /\ ret.done
    /\ call.name = "read_i16"
    /\ call.source = <<255, 255>>
    /\ ret.r.ok /\ ret.r.value = -32767

\* the octets section 0 is decoded from start with the ASCII bytes GRIB
MagicAtCursor == pos + 4 <= Len(file) /\ SubSeq(file, pos + 1, pos + 4) = <<71, 82, 73, 66>>

\* C21: section 0 decoding fails with a read error unless its first four bytes
\* are the ASCII bytes GRIB: a section 0 is returned only when they are, and
\* when they are not the error is ReadError, no section is kept and the cursor
\* stands right after those four bytes (or at the end of a shorter file), so
\* no further field of section 0 was read.
C21_Section0Magic ==
    [][DecodeSection0 =>
        /\ is_some(section0') => MagicAtCursor
        /\ ~MagicAtCursor =>
              /\ failure' = Some([kind |-> "ReadError", detail |-> <<>>])
              /\ section0' = None
              /\ stage' = "failed"
              /\ pos' = (IF pos + 4 <= Len(file) THEN pos + 4 ELSE Len(file))]_vars

\* a file that starts with HRIB was refused after its first four bytes
C21_Witness ==
    /\ stage = "failed"
    /\ section0 = None
    /\ Len(file) >= 16
    /\ SubSeq(file, 1, 4) = <<72, 82, 73, 66>>
    /\ pos = 4
    /\ failure = Some([kind |-> "ReadError", detail |-> <<>>])

----------------------------------------------------------------------------
(* Readers of several forecast blocks: what the claims say of them *)

\* the blocks the opened reader holds
LoadedBlocks ==
    IF product.kind = "LwjmReader"
    THEN {product.judgments[i] : i \in 1..Len(product.judgments)}
    ELSE {product.fpsw_sections[h][t] : h \in 1..Len(product.fpsw_sections), t \in 1..3}

\* the request asks for an hour the file does not contain
HourNotInFile ==
    \/ product.kind = "LwjmReader" /\ ~product.has_forecast /\ call.hour # 0
    \/ product.kind = "FPswReader" /\ call.hour > product.forecast_range

\* the block a request that was answered Ok has reached
BlockOfAnswer ==
    IF call.fn = "record_iter"
    THEN {b \in LoadedBlocks :
            /\ b.run_length_position = ret.r.value.reader.pos
            /\ b.run_length_bytes = ret.r.value.iter.total_bytes}
    ELSE {b \in LoadedBlocks : b = ret.r.value}

\* C22: a request for a forecast hour the file does not contain (judgment or
\* record_iter with an hour other than Live on a reader opened with
\* has_forecast = false, fpsw_sections with an hour outside forecast_range)
\* returns Err (RuntimeError); no request reaches an index out of range; and
\* every request answered Ok has indexed a block loaded at open: the block of
\* that hour (and tank).
C22_HourNotInFileIsRejected ==
    (ret.done /\ product.stage = "opened") =>
        /\ HourNotInFile => ret.r.status = "RuntimeError"
        /\ ret.r.status # "panic"
        /\ ret.r.status = "ok" =>
              /\ ~HourNotInFile
              /\ BlockOfAnswer # {}
              /\ \A b \in BlockOfAnswer :
                    b.block = (IF product.kind = "LwjmReader" THEN call.hour + 1
                               ELSE 3 * (call.hour - 1) + call.tank + 1)

\* judgment(Hour1) was refused by a reader that holds the live block only
C22_Witness ==
    /\ ret.done
    /\ product.stage = "opened"
    /\ product.kind = "LwjmReader"
    /\ Len(product.judgments) = 1
    /\ call.fn = "judgment"
    /\ call.hour = 1
    /\ ret.r.status = "RuntimeError"

----------------------------------------------------------------------------
(* The iterator: levels, cursor and frame *)

\* the repeat count of a set as a number of any size
RECURSIVE BigHorner(_, _, _)
BigHorner(digits, maxv, lngu) ==
    IF digits = <<>> THEN <<>>
    ELSE big_add(<<Head(digits) - (maxv + 1)>>,
                 big_mul(BigHorner(Tail(digits), maxv, lngu), lngu, 0), 0)

BigRepeatCount(digits, maxv, lngu) == big_add(BigHorner(digits, maxv, lngu), <<1>>, 0)

\* the i-th element (i from 1) of the concatenation of the expansions of the
\* sets of p from index start on; -1 when the expansions are shorter
RECURSIVE LevelAt(_, _, _, _, _)
LevelAt(p, start, i, maxv, lngu) ==
    LET in_set(count) ==
            IF ~fits_i32(count) \/ low_u32(count) >= i THEN p[start]
            ELSE LevelAt(p, SetEnd(p, start + 1, maxv), i - low_u32(count), maxv, lngu)
    IN IF start > Len(p) THEN -1
       ELSE in_set(BigRepeatCount(SubSeq(p, start + 1, SetEnd(p, start + 1, maxv) - 1),
                                  maxv, lngu))

\* the source holds the whole payload, which is made of well-formed sets
WellFormedStream ==
    /\ Built
    /\ FullSource
    /\ (Payload = <<>> \/ Payload[1] <= iter.maxv)

\* C23: for every stream made of well-formed sets, whatever number_of_points
\* is, the i-th record emitted carries the i-th element of the concatenation
\* of the sets' expansions (each set's level repeated its repeat count).
C23_EmittedLevelsArePrefix ==
    WellFormedStream =>
        \A i \in 1..Len(emitted) :
            emitted[i].level = LevelAt(Payload, 1, i, iter.maxv, iter.lngu)

----------------------------------------------------------------------------
(* Sections and readers of several blocks: further claims *)

\* C24: Section5<Template5_200>::from_reader consumes exactly the declared
\* section length: for every section_bytes >= 17, the position after a
\* successful decode is the position at the start of the section plus
\* section_bytes.
C24_Section5ConsumesDeclaredLength ==
    [][(DecodeSection5 /\ kind = "PrrReader" /\ is_some(section5')
            /\ unwrap(section5').section_bytes >= 17)
          => pos' = pos + unwrap(section5').section_bytes]_vars

\* the hourN of an item
HourOf(prep, N) ==
    CASE N = 1 -> prep.hour1 [] N = 2 -> prep.hour2 [] N = 3 -> prep.hour3
      [] N = 4 -> prep.hour4 [] N = 5 -> prep.hour5 [] OTHER -> prep.hour6

\* C25: each item of FPrrPrepIterator for coordinate c has, for every N in
\* 1..6, hourN equal to the value stored for c in the N-th forecast block
\* (precipitations[N-1]); in particular hour6 is the 6-hour block's value.
C25_PrepHoursAreTheBlocks ==
    (ret.done /\ ret.r.kind = "some") =>
        LET c == [lat |-> ret.r.lat, lon |-> ret.r.lon] IN
        \A N \in 1..6 :
            /\ c \in DOMAIN product.precipitations[N]
            /\ HourOf(ret.r, N) = product.precipitations[N][c]

\* the grid's last row is at latitude 0 or above
Rows == iter.number_of_points \div Columns
LastRowNotBelowZero == unwrap(builder.lat_max) - (Rows - 1) * iter.lat_inc >= 0

\* the call goes as far as the coordinate advance: it returns a record, or
\* aborts with the set already expanded
Advancing ==
    \/ item'.kind = "record"
    \/ item'.kind = "panic" /\ iter'.returning_times # 0

\* the advance leaves the row: current_lon + lon_inc is beyond lon_max
RowEnds == iter.lon_max < iter.current_lon + iter.lon_inc

\* C26: the coordinate cursor never goes below zero: for every grid of R rows
\* and W columns whose last-row latitude lat_max - (R-1) * lat_inc is >= 0,
\* the coordinate advance of each of the R*W records, the last one included,
\* does not subtract lat_inc from a current_lat smaller than lat_inc.
C26_CursorNeverBelowZero ==
    [][(/\ phase = "iterating"
        /\ calls' = calls + 1
        /\ LastRowNotBelowZero
        /\ iter.number_of_reads < iter.number_of_points
        /\ Advancing
        /\ RowEnds)
       => ~u32_lt(iter.current_lat, iter.lat_inc)]_vars

\* C27: in every reachable state of Grib2RecordIter read_bytes <= total_bytes:
\* the iterator never reads a byte beyond the total_bytes of the payload it
\* was built for (its stream starts at the payload, so the stream's position
\* is read_bytes), whatever the byte values are.
C27_NeverReadsBeyondTotalBytes ==
    /\ iter.read_bytes <= iter.total_bytes
    /\ reader.pos = iter.read_bytes

\* a payload of several bytes read to its end, with more bytes behind it in
\* the stream
C27_Witness ==
    /\ phase = "iterating"
    /\ iter.total_bytes > 1
    /\ iter.read_bytes = iter.total_bytes
    /\ Len(reader.data) > iter.total_bytes

\* the bytes a step takes from the stream
BytesRead == SubSeq(reader.data, reader.pos + 1, reader'.pos)

\* B is the rest of one set (the kept look-ahead byte, if any, is its first
\* element, every later element is a digit above maxv) plus at most one
\* look-ahead byte, which the step keeps in last_run_length
OneSetAndLookAhead(B) ==
    \E k \in 0..Len(B) :
        LET set == iter.last_run_length \o SubSeq(B, 1, k) IN
        /\ \A i \in 2..Len(set) : set[i] > iter.maxv
        /\ \/ /\ k = Len(B)
              /\ iter'.last_run_length = iter.last_run_length
           \/ /\ k = Len(B) - 1
              /\ B[Len(B)] <= iter.maxv
              /\ iter'.last_run_length = Some(B[Len(B)])

\* C28: a next() call made while returning_times > 0 reads no byte and leaves
\* read_bytes, current_level, current_value and last_run_length unchanged; a
\* next() call made with returning_times = 0 reads at most the bytes of one
\* set plus one look-ahead byte, which is kept in last_run_length as the first
\* element of the next set.
C28_ReadsOneSetPerExpansion ==
    [][(phase = "iterating" /\ calls' = calls + 1) =>
         IF iter.returning_times # 0
         THEN /\ reader' = reader
              /\ iter'.read_bytes = iter.read_bytes
              /\ iter'.current_level = iter.current_level
              /\ iter'.current_value = iter.current_value
              /\ iter'.last_run_length = iter.last_run_length
         ELSE /\ reader'.data = reader.data
              /\ reader'.pos >= reader.pos
              /\ iter'.read_bytes - iter.read_bytes = Len(BytesRead)
              /\ OneSetAndLookAhead(BytesRead)]_vars

\* a second set was read up to its look-ahead byte, which is kept, and the
\* set is still being returned
C28_Witness ==
    /\ phase = "iterating"
    /\ item.kind = "record"
    /\ iter.returning_times > 0
    /\ reader.pos >= 3
    /\ is_some(iter.last_run_length)
    /\ reader.data[reader.pos] = unwrap(iter.last_run_length)
    /\ Len(emitted) >= 2

\* the set the pending next() call retrieves
PendingSet == retrieve_run_length([iter |-> iter, reader |-> reader])

\* the pending next() call expands a set
Expanding == phase = "iterating" /\ iter.returning_times = 0 /\ ~at_end(iter)

\* C29: whenever next() decrements returning_times its value is at least 1
\* (a call that expands a set decrements the repeat count expand_run_length
\* returned; any other call decrements a returning_times that is not 0), and
\* expand_run_length is never called with an empty set, for every byte stream
\* whose sets each start with a byte <= maxv.
C29_DecrementsAtLeastOne ==
    (Expanding /\ PendingSet.ok) =>
           /\ PendingSet.run_length # <<>>
           /\ PendingSet.run_length[1] <= iter.maxv =>
                  LET x == expand_run_length(PendingSet.run_length, iter.maxv,
                                             iter.lngu, overflow_checks)
                  IN ~x.panic => x.times # 0

\* the source ends before total_bytes bytes, and the set the pending call
\* retrieves runs into that end: none of the bytes left closes it (a byte
\* closes a set when it is <= maxv and the set is not empty)
Remaining == SubSeq(reader.data, reader.pos + 1, Len(reader.data))
RunsOffEnd ==
    /\ Len(reader.data) < iter.total_bytes
    /\ \A i \in 1..Len(Remaining) :
           \/ i = 1 /\ iter.last_run_length = None
           \/ Remaining[i] > iter.maxv

ReadErrorReturned == item'.kind = "error" /\ item'.err = "ReadError"

\* C30: when reading a run-length byte fails because the source ends before
\* total_bytes bytes were delivered, next() returns a read-error item and
\* leaves current_lat, current_lon, current_level, returning_times and
\* number_of_reads unchanged, so no record is emitted for the incomplete set.
C30_ReadErrorLeavesCursor ==
    [][(phase = "iterating" /\ calls' = calls + 1) =>
         /\ (Expanding /\ RunsOffEnd) => ReadErrorReturned
         /\ ReadErrorReturned =>
              /\ Expanding /\ RunsOffEnd
              /\ iter'.current_lat = iter.current_lat
              /\ iter'.current_lon = iter.current_lon
              /\ iter'.current_level = iter.current_level
              /\ iter'.returning_times = iter.returning_times
              /\ iter'.number_of_reads = iter.number_of_reads
              /\ emitted' = emitted]_vars

\* a read error returned after a first set was returned, the source having
\* ended inside the second set
C30_Witness ==
    /\ item.kind = "error"
    /\ item.err = "ReadError"
    /\ Len(emitted) >= 1
    /\ iter.number_of_reads = Len(emitted)
    /\ reader.pos = Len(reader.data)
    /\ iter.read_bytes < iter.total_bytes

====
